---------------------------- MODULE Spec2Model ----------------------------
(***************************************************************************)
(* A model of md2docx: the branding configuration (branding.py) and the    *)
(* Markdown-AST to Word emitter (generator.py).                            *)
(*                                                                         *)
(* Text is modelled as a sequence of one-character strings, so that        *)
(* slicing, stripping and concatenation are computed and not assumed.      *)
(* Lengths are kept in EMU, the unit python-docx's Pt() and Inches()       *)
(* convert to.                                                             *)
(***************************************************************************)
EXTENDS Integers, Sequences, FiniteSets, TLC

VARIABLES
    colorIn,      \* the argument of a _parse_color call (a string)
    colorOut,     \* its outcome: not called yet, a value, or an exception
    data,         \* the override dictionary handed to BrandingConfig.from_dict
    cfg,          \* the outcome of from_dict(data)
    level,        \* the argument of a get_heading_config call
    hres,         \* its outcome
    heap,         \* the mutable Python objects: the lists of the override
                  \* dictionary and the nested records of returned configurations
    results,      \* the configurations a caller got from successive from_dict calls
    returned,     \* what each of these calls returned, as it was on return
    branding,     \* WordGenerator.branding
    ast,          \* the tree handed to the generate call in progress or last made
    document,     \* WordGenerator._document: None, or the python-docx document
    list_level,   \* WordGenerator._list_level
    stack,        \* the calls of the traversal in progress, innermost last
    status,       \* of the generator: idle (constructed), running (in generate),
                  \* returned or raised (how the last generate call ended)
    environ,      \* the entries of the variable MD2DOCX_ALLOWED_IMAGE_HOSTS
    hosts_provider,   \* images._allowed_hosts_provider
    image,        \* the load_image call in progress or last made
    request,      \* the request an endpoint of api.py handles, or the command line of cli.py
    pc,           \* where its handling is: idle, received, saving, writing, done
    calls,        \* the parts of the conversion called for it so far, in order
    response,     \* None, or the HTTP response (the exit status of the command)
    target,       \* the file at the output path of the command
    textNode,     \* the node handed to get_node_text
    textOut,      \* its outcome
    other,        \* the generator of the conversion that is not scheduled
    clock,        \* the time of the system clock
    generators,   \* the number of generators constructed
    outputs       \* the to_bytes calls so far: generator, tree, document, bytes

colorVars == <<colorIn, colorOut>>

brandVars == <<data, cfg, level, hres>>

objVars == <<heap, results, returned>>

genVars == <<branding, ast, document, list_level, stack, status>>

imgVars == <<environ, hosts_provider, image>>

svcVars == <<request, pc, calls, response, target>>

textVars == <<textNode, textOut>>

pairVars == <<other>>

bytesVars == <<clock, generators, outputs>>

vars == <<colorIn, colorOut, data, cfg, level, hres, heap, results, returned,
          branding, ast, document, list_level, stack, status,
          environ, hosts_provider, image,
          request, pc, calls, response, target,
          textNode, textOut,
          other,
          clock, generators, outputs>>

(***************************************************************************)
(* Bounds of the model.                                                    *)
(***************************************************************************)
MaxColorLen == 7

\* The most keys a nested override dictionary (a font, a heading, a page, a
\* header or footer) holds.
MaxFields == 2

\* The most from_dict calls a caller makes with one dictionary.
MaxCalls == 2

\* The most elements a caller appends to a list it got back.
MaxAppends == 1

\* get_heading_config is called with levels 1 - LevelSpan .. 6 + LevelSpan.
LevelSpan == 3

(***************************************************************************)
(* Python values.  A JSON value is tagged with its Python type; None is     *)
(* [t |-> "none"].  Each type keeps its payload under a field of its own.  *)
(* A list is a mutable object: a value holds a reference to it, and the    *)
(* object itself lives in the heap.                                        *)
(***************************************************************************)
None == [t |-> "none"]

Str(s) == [t |-> "str", s |-> s]

List(s) == [t |-> "list", l |-> s]

Num(n) == [t |-> "int", n |-> n]

Ref(id) == [t |-> "ref", id |-> id]

Ok(v) == [st |-> "ok", v |-> v]

Raised(e) == [st |-> "raised", v |-> [t |-> "exc", e |-> e]]

NotCalled == [st |-> "none", v |-> None]

Min(a, b) == IF a < b THEN a ELSE b

\* Python's s[a:b] for 0 <= a <= b.
Slice(s, a, b) == SubSeq(s, a + 1, Min(b, Len(s)))

(***************************************************************************)
(* branding.py, _parse_color and what it calls.                            *)
(***************************************************************************)
HexDigits == {"0", "1", "2", "3", "4", "5", "6", "7", "8", "9",
              "a", "b", "c", "d", "e", "f", "A", "B", "C", "D", "E", "F"}

HexVal(c) ==
    CASE c = "0" -> 0 [] c = "1" -> 1 [] c = "2" -> 2 [] c = "3" -> 3
      [] c = "4" -> 4 [] c = "5" -> 5 [] c = "6" -> 6 [] c = "7" -> 7
      [] c = "8" -> 8 [] c = "9" -> 9
      [] c \in {"a", "A"} -> 10 [] c \in {"b", "B"} -> 11
      [] c \in {"c", "C"} -> 12 [] c \in {"d", "D"} -> 13
      [] c \in {"e", "E"} -> 14 [] c \in {"f", "F"} -> 15

AllHex(s) == \A i \in 1..Len(s) : s[i] \in HexDigits

RECURSIVE HexNumber(_)
HexNumber(s) ==
    IF s = <<>> THEN 0 ELSE 16 * HexNumber(SubSeq(s, 1, Len(s) - 1)) + HexVal(s[Len(s)])

\* Python's int(s, 16) on the characters the model draws: an optional sign
\* followed by at least one hexadecimal digit; anything else is a ValueError.
PyInt16(s) ==
    LET signed == s # <<>> /\ s[1] \in {"+", "-"}
        digits == IF signed THEN Tail(s) ELSE s
    IN IF digits = <<>> \/ ~AllHex(digits)
       THEN Raised("ValueError")
       ELSE Ok(IF signed /\ s[1] = "-" THEN 0 - HexNumber(digits) ELSE HexNumber(digits))

\* Python's s.lstrip("#"): every leading '#' goes, not only the first.
RECURSIVE LStripHash(_)
LStripHash(s) ==
    IF s # <<>> /\ Head(s) = "#" THEN LStripHash(Tail(s)) ELSE s

\* An RGBColor value.
Rgb(r, g, b) == [t |-> "rgb", rgb |-> <<r, g, b>>]

\* docx.shared.RGBColor(r, g, b): three integers, each 0..255, or ValueError.
RGBColor(r, g, b) ==
    IF \A x \in {r, g, b} : x \in 0..255
    THEN Ok(Rgb(r, g, b))
    ELSE Raised("ValueError")

\* A 3-element list or tuple goes to RGBColor; a string is sliced into three
\* pairs and each pair parsed in base 16; anything else is returned as it is
\* (a list of another length: the very list object of the dictionary).
ParseColor(color_data) ==
    IF color_data.t = "ref" /\ Len(heap[color_data.id].l) = 3
    THEN LET l == heap[color_data.id].l IN RGBColor(l[1], l[2], l[3])
    ELSE IF color_data.t = "str"
    THEN LET hex_color == LStripHash(color_data.s)
             r == PyInt16(Slice(hex_color, 0, 2))
             g == PyInt16(Slice(hex_color, 2, 4))
             b == PyInt16(Slice(hex_color, 4, 6))
         IN IF r.st = "raised" THEN r
            ELSE IF g.st = "raised" THEN g
            ELSE IF b.st = "raised" THEN b
            ELSE RGBColor(r.v, g.v, b.v)
    ELSE Ok(color_data)

(***************************************************************************)
(* branding.py: the configuration records and their defaults.              *)
(***************************************************************************)
\* docx.shared.Pt(points) = int(points * 12700) EMU.
Pt(points) == points * 12700

\* docx.shared.Inches(inches) = int(inches * 914400) EMU.
Inches(inches) == inches * 914400

\* Inches() of a number given in half inches: Inches(8.5) = HalfInches(17).
HalfInches(halves) == halves * 457200

\* Text that is only stored and compared (names, header texts) is a sequence
\* of tokens; "" is the empty sequence.
EmptyStr == <<>>

FontConfig ==
    [name |-> "Calibri", size |-> Pt(11), color |-> None,
     bold |-> FALSE, italic |-> FALSE]

HeadingConfig ==
    [font_name |-> "Calibri", font_size |-> Pt(16), color |-> None,
     bold |-> TRUE, italic |-> FALSE,
     space_before |-> Pt(12), space_after |-> Pt(6)]

HeaderFooterConfig ==
    [text |-> EmptyStr, left_text |-> EmptyStr, right_text |-> EmptyStr,
     font_name |-> "Calibri", font_size |-> Pt(9), color |-> None,
     include_page_number |-> FALSE, page_number_position |-> "right",
     logo_path |-> EmptyStr, logo_position |-> "left", logo_width |-> None]

\* HeadingConfig(font_size=.., bold=True, [italic=True,] space_before=..,
\* space_after=..): the default of heading1 .. heading6.
DefaultHeading(i) ==
    CASE i = 1 -> [HeadingConfig EXCEPT !.font_size = Pt(24),
                       !.space_before = Pt(18), !.space_after = Pt(12)]
      [] i = 2 -> [HeadingConfig EXCEPT !.font_size = Pt(20),
                       !.space_before = Pt(16), !.space_after = Pt(10)]
      [] i = 3 -> [HeadingConfig EXCEPT !.font_size = Pt(16),
                       !.space_before = Pt(14), !.space_after = Pt(8)]
      [] i = 4 -> [HeadingConfig EXCEPT !.font_size = Pt(14),
                       !.space_before = Pt(12), !.space_after = Pt(6)]
      [] i = 5 -> [HeadingConfig EXCEPT !.font_size = Pt(12),
                       !.space_before = Pt(10), !.space_after = Pt(4)]
      [] i = 6 -> [HeadingConfig EXCEPT !.font_size = Pt(11), !.italic = TRUE,
                       !.space_before = Pt(8), !.space_after = Pt(4)]

BrandingConfig ==
    [title |-> EmptyStr, author |-> EmptyStr, company |-> EmptyStr,
     page_width |-> HalfInches(17), page_height |-> Inches(11),
     margin_top |-> Inches(1), margin_bottom |-> Inches(1),
     margin_left |-> Inches(1), margin_right |-> Inches(1),
     body_font |-> FontConfig,
     heading1 |-> DefaultHeading(1), heading2 |-> DefaultHeading(2),
     heading3 |-> DefaultHeading(3), heading4 |-> DefaultHeading(4),
     heading5 |-> DefaultHeading(5), heading6 |-> DefaultHeading(6),
     code_font |-> [FontConfig EXCEPT !.name = "Courier New", !.size = Pt(10)],
     code_background_color |-> Rgb(245, 245, 245),
     link_color |-> Rgb(0, 0, 255),
     link_underline |-> TRUE,
     list_indent |-> HalfInches(1),
     header |-> HeaderFooterConfig,
     footer |-> [HeaderFooterConfig EXCEPT !.include_page_number = TRUE]]

\* A get_heading_config that clamps a level below 1 to heading1.
GetHeadingConfigClamped(config, lvl) ==
    CASE lvl <= 1 -> config.heading1
      [] lvl = 2 -> config.heading2
      [] lvl = 3 -> config.heading3
      [] lvl = 4 -> config.heading4
      [] lvl = 5 -> config.heading5
      [] OTHER -> config.heading6

\* heading_map.get(level, self.heading6)
GetHeadingConfig(config, lvl) ==
    CASE lvl = 1 -> config.heading1
      [] lvl = 2 -> config.heading2
      [] lvl = 3 -> config.heading3
      [] lvl = 4 -> config.heading4
      [] lvl = 5 -> config.heading5
      [] lvl = 6 -> config.heading6
      [] OTHER -> config.heading6

(***************************************************************************)
(* branding.py: from_dict and the three nested parsers.  A dictionary is a *)
(* function from its keys; `key in d' is key \in DOMAIN d.                 *)
(***************************************************************************)
Has(d, key) == key \in DOMAIN d

\* The value of d[key] when present, else the value the fresh record holds.
Field(d, key, fresh) == IF Has(d, key) THEN d[key] ELSE fresh

\* A colour field: _parse_color(d[key]) when present.
ColorField(d, key, fresh) == IF Has(d, key) THEN ParseColor(d[key]) ELSE Ok(fresh)

ParseFontConfig(d) ==
    LET config == FontConfig
        color == ColorField(d, "color", config.color)
    IN IF color.st = "raised" THEN color
       ELSE Ok([name |-> Field(d, "name", config.name),
                size |-> IF Has(d, "size") THEN Pt(d.size) ELSE config.size,
                color |-> color.v,
                bold |-> Field(d, "bold", config.bold),
                italic |-> Field(d, "italic", config.italic)])

\* "italic" is not among the keys _parse_heading_config reads.
ParseHeadingConfig(d) ==
    LET config == HeadingConfig
        color == ColorField(d, "color", config.color)
    IN IF color.st = "raised" THEN color
       ELSE Ok([font_name |-> Field(d, "font_name", config.font_name),
                font_size |-> IF Has(d, "font_size") THEN Pt(d.font_size)
                                                     ELSE config.font_size,
                color |-> color.v,
                bold |-> Field(d, "bold", config.bold),
                italic |-> config.italic,
                space_before |-> IF Has(d, "space_before") THEN Pt(d.space_before)
                                                           ELSE config.space_before,
                space_after |-> IF Has(d, "space_after") THEN Pt(d.space_after)
                                                         ELSE config.space_after])

ParseHeaderFooterConfig(d) ==
    LET config == HeaderFooterConfig
        color == ColorField(d, "color", config.color)
    IN IF color.st = "raised" THEN color
       ELSE Ok([text |-> Field(d, "text", config.text),
                left_text |-> Field(d, "left_text", config.left_text),
                right_text |-> Field(d, "right_text", config.right_text),
                font_name |-> Field(d, "font_name", config.font_name),
                font_size |-> IF Has(d, "font_size") THEN Pt(d.font_size)
                                                     ELSE config.font_size,
                color |-> color.v,
                include_page_number |->
                    Field(d, "include_page_number", config.include_page_number),
                page_number_position |->
                    Field(d, "page_number_position", config.page_number_position),
                logo_path |-> Field(d, "logo_path", config.logo_path),
                logo_position |-> Field(d, "logo_position", config.logo_position),
                logo_width |-> Field(d, "logo_width", config.logo_width)])

\* One page field: Inches(page[key]) when "page" and the key are present.
PageField(d, key, fresh) ==
    IF Has(d, "page") /\ Has(d.page, key) THEN Inches(d.page[key]) ELSE fresh

\* A nested record: the parser's result when the key is present.
FontField(d, key, fresh) == IF Has(d, key) THEN ParseFontConfig(d[key]) ELSE Ok(fresh)

HeadingField(d, key, fresh) ==
    IF Has(d, key) THEN ParseHeadingConfig(d[key]) ELSE Ok(fresh)

HeaderFooterField(d, key, fresh) ==
    IF Has(d, key) THEN ParseHeaderFooterConfig(d[key]) ELSE Ok(fresh)

\* The nested records and colours of from_dict(d), each the outcome of its
\* parser.
ParsedFields(d, config) ==
            [body_font |-> FontField(d, "body_font", config.body_font),
             heading1 |-> HeadingField(d, "heading1", config.heading1),
             heading2 |-> HeadingField(d, "heading2", config.heading2),
             heading3 |-> HeadingField(d, "heading3", config.heading3),
             heading4 |-> HeadingField(d, "heading4", config.heading4),
             heading5 |-> HeadingField(d, "heading5", config.heading5),
             heading6 |-> HeadingField(d, "heading6", config.heading6),
             code_font |-> FontField(d, "code_font", config.code_font),
             code_background_color |->
                 ColorField(d, "code_background_color", config.code_background_color),
             link_color |-> ColorField(d, "link_color", config.link_color),
             header |-> HeaderFooterField(d, "header", config.header),
             footer |-> HeaderFooterField(d, "footer", config.footer)]

\* from_dict(d), given the outcomes of the parsers: the first exception
\* leaves from_dict, else the configuration is returned.
FromDictWith(d, config, parsed) ==
       IF \E k \in DOMAIN parsed : parsed[k].st = "raised"
       THEN Raised("ValueError")
       ELSE Ok([title |-> Field(d, "title", config.title),
                author |-> Field(d, "author", config.author),
                company |-> Field(d, "company", config.company),
                page_width |-> PageField(d, "width", config.page_width),
                page_height |-> PageField(d, "height", config.page_height),
                margin_top |-> PageField(d, "margin_top", config.margin_top),
                margin_bottom |-> PageField(d, "margin_bottom", config.margin_bottom),
                margin_left |-> PageField(d, "margin_left", config.margin_left),
                margin_right |-> PageField(d, "margin_right", config.margin_right),
                body_font |-> parsed.body_font.v,
                heading1 |-> parsed.heading1.v, heading2 |-> parsed.heading2.v,
                heading3 |-> parsed.heading3.v, heading4 |-> parsed.heading4.v,
                heading5 |-> parsed.heading5.v, heading6 |-> parsed.heading6.v,
                code_font |-> parsed.code_font.v,
                code_background_color |-> parsed.code_background_color.v,
                link_color |-> parsed.link_color.v,
                link_underline |-> Field(d, "link_underline", config.link_underline),
                list_indent |-> config.list_indent,
                header |-> parsed.header.v,
                footer |-> parsed.footer.v])

FromDict(d) == FromDictWith(d, BrandingConfig, ParsedFields(d, BrandingConfig))

(***************************************************************************)
(* The override dictionaries from_dict is called with: the empty one and   *)
(* every dictionary of one top-level key whose nested dictionary holds at  *)
(* most MaxFields keys.  The sample values include what a JSON document    *)
(* can hold for a colour (a hex string, a list, a number) and for a length *)
(* (positive, zero, negative).                                             *)
(***************************************************************************)
EmptyDict == [k \in {} |-> TRUE]

\* The list objects of the override dictionaries.
SampleHeap ==
    <<List(<<18, 52, 86>>), List(<<0, 0, 256>>), List(<<255, 0>>), List(<<1, 2, 3, 4>>)>>

ColorSamples ==
    {Str(<<"#", "2", "F", "5", "4", "9", "6">>), Str(<<"F", "F">>), Num(7)}
    \cup {Ref(id) : id \in DOMAIN SampleHeap}

LengthSamples == {3, 0, -1}

FontSamples ==
    [name |-> {"Arial"}, size |-> LengthSamples, color |-> ColorSamples,
     bold |-> {TRUE}, italic |-> {TRUE}]

HeadingSamples ==
    [font_name |-> {"Arial"}, font_size |-> LengthSamples, color |-> ColorSamples,
     bold |-> {FALSE}, italic |-> {TRUE},
     space_before |-> {30, 0}, space_after |-> {30, -1}]

HeaderFooterSamples ==
    [text |-> {<<"Title">>}, left_text |-> {<<"Acme">>}, right_text |-> {<<"Draft">>},
     font_name |-> {"Arial"}, font_size |-> {12, 0}, color |-> ColorSamples,
     include_page_number |-> BOOLEAN, page_number_position |-> {"left", "center"},
     logo_path |-> {<<"logo.png">>}, logo_position |-> {"right"},
     logo_width |-> {Num(2)}]

PageSamples ==
    [width |-> LengthSamples, height |-> LengthSamples,
     margin_top |-> LengthSamples, margin_bottom |-> LengthSamples,
     margin_left |-> LengthSamples, margin_right |-> LengthSamples]

\* The dictionaries over at most n of the keys, each key with one of its samples.
RECURSIVE DictsOver(_, _, _)
DictsOver(keys, samples, n) ==
    IF n = 0 \/ keys = {} THEN {EmptyDict}
    ELSE LET k == CHOOSE x \in keys : TRUE
         IN DictsOver(keys \ {k}, samples, n)
            \cup {(k :> v) @@ d : v \in samples[k],
                                  d \in DictsOver(keys \ {k}, samples, n - 1)}

NestedDicts(samples) == DictsOver(DOMAIN samples, samples, MaxFields)

\* The same with at most one key in a nested dictionary.
SingleFieldDicts(samples) == DictsOver(DOMAIN samples, samples, 1)

TopSamples ==
    [title |-> {<<"Report">>}, author |-> {<<"Ann">>}, company |-> {<<"Acme">>},
     page |-> NestedDicts(PageSamples),
     body_font |-> NestedDicts(FontSamples),
     heading1 |-> NestedDicts(HeadingSamples),
     heading2 |-> NestedDicts(HeadingSamples),
     heading3 |-> NestedDicts(HeadingSamples),
     heading4 |-> NestedDicts(HeadingSamples),
     heading5 |-> NestedDicts(HeadingSamples),
     heading6 |-> NestedDicts(HeadingSamples),
     code_font |-> NestedDicts(FontSamples),
     code_background_color |-> ColorSamples,
     link_color |-> ColorSamples,
     link_underline |-> {FALSE},
     header |-> NestedDicts(HeaderFooterSamples),
     footer |-> NestedDicts(HeaderFooterSamples)]

Overrides == DictsOver(DOMAIN TopSamples, TopSamples, 1)

ReuseSamples ==
    [title |-> {<<"Report">>},
     page |-> SingleFieldDicts(PageSamples),
     body_font |-> SingleFieldDicts(FontSamples),
     heading1 |-> SingleFieldDicts(HeadingSamples),
     heading6 |-> SingleFieldDicts(HeadingSamples),
     code_background_color |-> ColorSamples,
     link_color |-> ColorSamples,
     footer |-> SingleFieldDicts(HeaderFooterSamples)]

\* The dictionaries a caller hands to from_dict more than once.
ReuseOverrides == DictsOver(DOMAIN ReuseSamples, ReuseSamples, 1)

Levels == (1 - LevelSpan)..(6 + LevelSpan)

BrandInit ==
    /\ data \in Overrides
    /\ cfg = NotCalled
    /\ level = 0
    /\ hres = NotCalled

BrandIdle ==
    /\ data = EmptyDict
    /\ cfg = NotCalled
    /\ level = 0
    /\ hres = NotCalled

ObjIdle ==
    /\ heap = SampleHeap
    /\ results = <<>>
    /\ returned = <<>>

\* No generator is in use: one constructed with the default branding.
GenIdle ==
    /\ branding = BrandingConfig
    /\ ast = <<>>
    /\ document = None
    /\ list_level = 0
    /\ stack = <<>>
    /\ status = "idle"

\* config = BrandingConfig.from_dict(data)
CallFromDict ==
    /\ cfg.st = "none"
    /\ cfg' = FromDict(data)
    /\ UNCHANGED <<data, level, hres>>

\* config.get_heading_config(lvl)
CallGetHeadingConfig(lvl) ==
    /\ cfg.st = "ok"
    /\ hres.st = "none"
    /\ level' = lvl
    /\ hres' = Ok(GetHeadingConfig(cfg.v, lvl))
    /\ UNCHANGED <<data, cfg>>

(***************************************************************************)
(* A caller that keeps one dictionary, calls from_dict with it several     *)
(* times and changes what it got back.  cls() and the three parsers build  *)
(* every nested record of a result anew (default_factory, FontConfig(),    *)
(* HeadingConfig(), HeaderFooterConfig()): each gets a heap cell of its    *)
(* own.  RGBColor values, strings and numbers are immutable and stay       *)
(* values; a list that _parse_color hands back is the dictionary's object. *)
(***************************************************************************)
NestedOrder ==
    <<"body_font", "heading1", "heading2", "heading3", "heading4", "heading5",
      "heading6", "code_font", "header", "footer">>

NestedIndex(f) == CHOOSE k \in DOMAIN NestedOrder : NestedOrder[k] = f

IsNested(f) == \E k \in DOMAIN NestedOrder : NestedOrder[k] = f

DerefColor(c, h) == IF c.t = "ref" THEN h[c.id] ELSE c

\* The value of configuration v, its list references followed in heap h.
Snapshot(v, h) ==
    [f \in DOMAIN v |->
        IF IsNested(f) THEN [v[f] EXCEPT !.color = DerefColor(@, h)]
        ELSE IF f \in {"code_background_color", "link_color"} THEN DerefColor(v[f], h)
        ELSE v[f]]

\* The configuration object a caller holds: nested records by reference.
Boxed(v, base) ==
    [f \in DOMAIN v |-> IF IsNested(f) THEN Ref(base + NestedIndex(f)) ELSE v[f]]

\* The colours of result res: its own and those of its nested records.
ColorsOf(res) ==
    {res.code_background_color, res.link_color}
    \cup {heap[res[NestedOrder[k]].id].rec.color : k \in DOMAIN NestedOrder}

\* The mutable objects reachable from result res.
ObjectsOf(res) ==
    {res[NestedOrder[k]].id : k \in DOMAIN NestedOrder}
    \cup {c.id : c \in {x \in ColorsOf(res) : x.t = "ref"}}

MutatedColor == Rgb(9, 9, 9)

ReuseInit ==
    /\ data \in ReuseOverrides
    /\ cfg = NotCalled
    /\ level = 0
    /\ hres = NotCalled
    /\ heap = SampleHeap
    /\ results = <<>>
    /\ returned = <<>>

\* One more config = BrandingConfig.from_dict(data) with the same dictionary.
CallFromDictAgain ==
    /\ Len(results) < MaxCalls
    /\ \E r \in {FromDict(data)} : \E base \in {Len(heap)} :
          IF r.st = "raised"
          THEN /\ results' = Append(results, r)
               /\ returned' = Append(returned, r)
               /\ heap' = heap
          ELSE /\ heap' = heap \o [k \in DOMAIN NestedOrder |->
                                      [t |-> "rec", rec |-> r.v[NestedOrder[k]]]]
               /\ results' = Append(results, Ok(Boxed(r.v, base)))
               /\ returned' = Append(returned, Ok(Snapshot(r.v, heap)))
    /\ UNCHANGED <<data, cfg, level, hres>>

\* The caller assigns to an attribute of a nested record of a result it
\* holds, as load_branding_config does with branding.header.text.
MutateRecord(i, f) ==
    /\ results[i].st = "ok"
    /\ LET id == results[i].v[f].id
       IN /\ \A k \in DOMAIN heap :
                 heap[k].t = "rec" => heap[k].rec.color # MutatedColor
          /\ heap' = [heap EXCEPT ![id].rec.color = MutatedColor]
    /\ UNCHANGED <<data, cfg, level, hres, results, returned>>

\* The caller appends to a list it finds as a colour of a result it holds.
MutateList(i) ==
    /\ results[i].st = "ok"
    /\ \E id \in {c.id : c \in {x \in ColorsOf(results[i].v) : x.t = "ref"}} :
           /\ Len(heap[id].l) < Len(SampleHeap[id].l) + MaxAppends
           /\ heap' = [heap EXCEPT ![id].l = Append(@, 0)]
    /\ UNCHANGED <<data, cfg, level, hres, results, returned>>

\* The caller assigns to a top-level attribute of a result it holds, as
\* load_branding_config does with branding.title.
MutateTop(i) ==
    /\ results[i].st = "ok"
    /\ results[i].v.title # <<"Changed">>
    /\ results' = [results EXCEPT ![i].v.title = <<"Changed">>]
    /\ UNCHANGED <<data, cfg, level, hres, heap, returned>>

(***************************************************************************)
(* Calls of _parse_color on strings.                                       *)
(***************************************************************************)
ColorChars == {"#", "1", "F", "g", "+", "-"}

ColorStrings == UNION {[1..n -> ColorChars] : n \in 0..MaxColorLen}

ColorInit ==
    /\ colorIn \in ColorStrings
    /\ colorOut = NotCalled

ColorIdle ==
    /\ colorIn = <<>>
    /\ colorOut = NotCalled

CallParseColor ==
    /\ colorOut.st = "none"
    /\ colorOut' = ParseColor(Str(colorIn))
    /\ UNCHANGED colorIn

\* No image is being loaded: the module as imported, the variable not set.
ImageIdle ==
    /\ environ = <<>>
    /\ hosts_provider = [kind |-> "env"]
    /\ image = [pc |-> "idle", ref |-> <<>>, allowed |-> {}, requested |-> <<>>,
                exc |-> ""]

\* No request is being handled.
ServiceIdle ==
    /\ request = None
    /\ pc = "idle"
    /\ calls = <<>>
    /\ response = None
    /\ target = [state |-> "absent", parts |-> 0]

\* get_node_text is not called.
TextIdle ==
    /\ textNode = EmptyDict
    /\ textOut = NotCalled

\* There is no second conversion.
PairIdle ==
    other = None

\* to_bytes is not called.
BytesIdle ==
    /\ clock = 0
    /\ generators = 0
    /\ outputs = <<>>

(***************************************************************************)
(* The specifications: one per component, the others at rest.              *)
(***************************************************************************)
InitColor == ColorInit /\ BrandIdle /\ ObjIdle /\ GenIdle /\ ImageIdle /\ ServiceIdle /\ TextIdle /\ PairIdle /\ BytesIdle

NextColor == CallParseColor /\ UNCHANGED <<brandVars, objVars, genVars, imgVars, svcVars, textVars, pairVars, bytesVars>>

SpecColor == InitColor /\ [][NextColor]_vars

InitBranding == BrandInit /\ ColorIdle /\ ObjIdle /\ GenIdle /\ ImageIdle /\ ServiceIdle /\ TextIdle /\ PairIdle /\ BytesIdle

NextBranding ==
    \/ CallFromDict /\ UNCHANGED <<colorVars, objVars, genVars, imgVars, svcVars, textVars, pairVars, bytesVars>>
    \/ \E lvl \in Levels : CallGetHeadingConfig(lvl) /\ UNCHANGED <<colorVars, objVars, genVars, imgVars, svcVars, textVars, pairVars, bytesVars>>

SpecBranding == InitBranding /\ [][NextBranding]_vars

InitReuse == ReuseInit /\ ColorIdle /\ GenIdle /\ ImageIdle /\ ServiceIdle /\ TextIdle /\ PairIdle /\ BytesIdle

NextReuse ==
    \/ CallFromDictAgain /\ UNCHANGED <<colorVars, genVars, imgVars, svcVars, textVars, pairVars, bytesVars>>
    \/ \E i \in DOMAIN results : \E k \in DOMAIN NestedOrder :
           MutateRecord(i, NestedOrder[k]) /\ UNCHANGED <<colorVars, genVars, imgVars, svcVars, textVars, pairVars, bytesVars>>
    \/ \E i \in DOMAIN results : MutateList(i) /\ UNCHANGED <<colorVars, genVars, imgVars, svcVars, textVars, pairVars, bytesVars>>
    \/ \E i \in DOMAIN results : MutateTop(i) /\ UNCHANGED <<colorVars, genVars, imgVars, svcVars, textVars, pairVars, bytesVars>>

SpecReuse == InitReuse /\ [][NextReuse]_vars

(***************************************************************************)
(* parser.py and generator.py: the nodes of a Markdown AST.  A node is a   *)
(* dictionary, here a function from its keys; node.get(key, default) is    *)
(* Get.  Text (raw, link) is a sequence of one-character strings.          *)
(***************************************************************************)
\* node.get(key, default)
Get(node, key, default) == IF key \in DOMAIN node THEN node[key] ELSE default

\* node.get("type", "")
NodeType(node) == Get(node, "type", "")

\* node.get("children", [])
Children(node) == Get(node, "children", <<>>)

\* node.get("attrs", {})
Attrs(node) == Get(node, "attrs", EmptyDict)

\* A get_node_text that does not go below the children of the node.
RECURSIVE GetNodeTextShallow(_)
GetNodeTextShallow(node) ==
    IF "raw" \in DOMAIN node THEN node.raw
    ELSE IF "children" \in DOMAIN node
    THEN IF node.children = <<>> THEN <<>>
         ELSE Get(Head(node.children), "raw", <<>>)
              \o GetNodeTextShallow([children |-> Tail(node.children)])
    ELSE <<>>

\* MarkdownParser.get_node_text
RECURSIVE GetNodeText(_), JoinNodeTexts(_)
GetNodeText(node) ==
    IF "raw" \in DOMAIN node THEN node.raw
    ELSE IF "children" \in DOMAIN node THEN JoinNodeTexts(node.children)
    ELSE <<>>

\* "".join(get_node_text(child) for child in children)
JoinNodeTexts(nodes) ==
    IF nodes = <<>> THEN <<>>
    ELSE GetNodeText(Head(nodes)) \o JoinNodeTexts(Tail(nodes))

(***************************************************************************)
(* python-docx as the generator uses it.  The body of a document is a      *)
(* sequence of elements (paragraphs and tables); each element remembers in *)
(* src the path of the AST node it was emitted for.  An attribute that     *)
(* python-docx leaves unset (None) is the empty set, a set one {value}.    *)
(***************************************************************************)
\* The characters lxml refuses in the text of an element (ValueError: All
\* strings must be XML compatible); "^A" stands for such a control character.
ControlChars == {"^A"}

XmlCompatible(text) == \A i \in DOMAIN text : text[i] \notin ControlChars

\* The paragraph styles of python-docx's default template that the
\* generator asks for by name; any other name makes the lookup raise KeyError.
DocStyles ==
    {"Normal", "Header", "Footer", "Intense Quote", "Table Grid",
     "List Bullet", "List Bullet 2", "List Bullet 3",
     "List Number", "List Number 2", "List Number 3"}
    \cup {"Heading " \o ToString(i) : i \in 1..9}

\* paragraph.add_run(): a run without text and without font attributes.
Run ==
    [kind |-> "run", text |-> <<>>, bold |-> {}, italic |-> {}, strike |-> {},
     name |-> {}, size |-> {}, color |-> {}]

\* document.add_paragraph(): a paragraph of the named style, no runs.
NewParagraph(style, src) ==
    [kind |-> "paragraph", style |-> style, runs |-> <<>>,
     left_indent |-> {}, space_before |-> {}, space_after |-> {},
     alignment |-> {}, shading |-> {}, src |-> src]

\* What a handler did: the elements it appended to the body, and whether it
\* ended by raising.
Outcome(elems, raised) == [elems |-> elems, raised |-> raised]

NoOutput == Outcome(<<>>, FALSE)

\* Python's truth value of a colour field: None is false, an RGBColor (a
\* 3-tuple) is true.
Truthy(c) ==
    CASE c.t = "none" -> FALSE
      [] c.t = "int" -> c.n # 0
      [] c.t = "str" -> c.s # <<>>
      [] c.t = "ref" -> heap[c.id].l # <<>>
      [] OTHER -> TRUE

\* if color: font.color.rgb = color
FontColor(c) == IF Truthy(c) THEN {c} ELSE {}

\* f"{n:02X}"
HexChars ==
    <<"0", "1", "2", "3", "4", "5", "6", "7", "8", "9", "A", "B", "C", "D", "E", "F">>

Hex2(n) == <<HexChars[(n \div 16) + 1], HexChars[(n % 16) + 1]>>

\* f"{color[0]:02X}{color[1]:02X}{color[2]:02X}"
Hex6(c) == Hex2(c.rgb[1]) \o Hex2(c.rgb[2]) \o Hex2(c.rgb[3])

(***************************************************************************)
(* generator.py, _process_inline_content and _add_hyperlink.               *)
(***************************************************************************)
\* The <w:hyperlink> element _add_hyperlink appends to the paragraph.
Hyperlink(url, text, b) ==
    [kind |-> "hyperlink", text |-> text, url |-> url,
     color |-> Hex6(b.link_color), underline |-> b.link_underline,
     name |-> b.body_font.name]

\* The text a child of the given type hands to add_run or to the <w:t> of
\* a hyperlink.
InlineText(child) ==
    CASE NodeType(child) \in {"text", "codespan"} -> Get(child, "raw", <<>>)
      [] NodeType(child) \in {"strong", "emphasis", "link", "strikethrough"} ->
             GetNodeText(child)
      [] NodeType(child) = "softbreak" -> <<" ">>
      [] NodeType(child) = "linebreak" -> <<"\n">>
      [] OTHER -> <<>>

\* One iteration of the loop of _process_inline_content: what is appended
\* to the paragraph for one child.
InlineElems(child, b) ==
    CASE NodeType(child) = "text" ->
             <<[Run EXCEPT !.text = InlineText(child),
                           !.name = {b.body_font.name},
                           !.size = {b.body_font.size},
                           !.color = FontColor(b.body_font.color)]>>
      [] NodeType(child) = "strong" ->
             <<[Run EXCEPT !.text = InlineText(child), !.bold = {TRUE},
                           !.name = {b.body_font.name},
                           !.size = {b.body_font.size}]>>
      [] NodeType(child) = "emphasis" ->
             <<[Run EXCEPT !.text = InlineText(child), !.italic = {TRUE},
                           !.name = {b.body_font.name},
                           !.size = {b.body_font.size}]>>
      [] NodeType(child) = "codespan" ->
             <<[Run EXCEPT !.text = InlineText(child),
                           !.name = {b.code_font.name},
                           !.size = {b.code_font.size},
                           !.color = FontColor(b.code_font.color)]>>
      [] NodeType(child) = "link" ->
             <<Hyperlink(Get(child, "link", <<>>), InlineText(child), b)>>
      [] NodeType(child) \in {"softbreak", "linebreak"} ->
             <<[Run EXCEPT !.text = InlineText(child)]>>
      [] NodeType(child) = "strikethrough" ->
             <<[Run EXCEPT !.text = InlineText(child), !.strike = {TRUE}]>>
      [] OTHER -> <<>>

\* What the iteration leaves in the paragraph when the text is refused:
\* add_run has appended the run before its text is set; _add_hyperlink
\* appends the hyperlink only after its text was set.
InlineRemains(child) == IF NodeType(child) = "link" THEN <<>> ELSE <<Run>>

\* The loop of _process_inline_content over children, from a paragraph that
\* holds runs: the runs of the paragraph afterwards, and whether it raised.
RECURSIVE ProcessInlineContent(_, _, _)
ProcessInlineContent(runs, children, b) ==
    IF children = <<>> THEN [runs |-> runs, raised |-> FALSE]
    ELSE IF ~XmlCompatible(InlineText(Head(children)))
    THEN [runs |-> runs \o InlineRemains(Head(children)), raised |-> TRUE]
    ELSE ProcessInlineContent(runs \o InlineElems(Head(children), b),
                              Tail(children), b)

InlineOutcome(paragraph, r) ==
    Outcome(<<[paragraph EXCEPT !.runs = r.runs]>>, r.raised)

\* self._process_inline_content(paragraph, children) on a paragraph just added
WithInlineContent(paragraph, children, b) ==
    InlineOutcome(paragraph, ProcessInlineContent(<<>>, children, b))

(***************************************************************************)
(* generator.py, the handlers of the block nodes other than lists.         *)
(***************************************************************************)
\* _handle_paragraph
HandleParagraph(node, src, b) ==
    WithInlineContent(NewParagraph("Normal", src), Children(node), b)

\* The formatting _handle_heading gives a run of a heading whose record has
\* a colour or a font name other than Calibri.
HeadingRun(run, config) ==
    [run EXCEPT !.name = IF config.font_name # "Calibri"
                         THEN {config.font_name} ELSE @,
                !.color = IF Truthy(config.color) THEN {config.color} ELSE @,
                !.bold = {config.bold},
                !.italic = IF config.italic THEN {TRUE} ELSE @]

HeadingFormat(paragraph, config) ==
    IF Truthy(config.color) \/ config.font_name # "Calibri"
    THEN [paragraph EXCEPT
              !.runs = [i \in DOMAIN @ |-> HeadingRun(@[i], config)],
              !.space_before = {config.space_before},
              !.space_after = {config.space_after}]
    ELSE paragraph

\* document.add_paragraph(text, style=style_name) and the formatting after
\* it.  add_paragraph appends the paragraph, then adds the run (if the text
\* is not empty), then looks the style up.
HeadingOutcome(text, style_name, config, src) ==
    IF ~XmlCompatible(text)
    THEN Outcome(<<[NewParagraph("Normal", src) EXCEPT !.runs = <<Run>>]>>, TRUE)
    ELSE IF style_name \notin DocStyles
    THEN Outcome(<<[NewParagraph("Normal", src) EXCEPT
                        !.runs = IF text = <<>> THEN <<>>
                                 ELSE <<[Run EXCEPT !.text = text]>>]>>, TRUE)
    ELSE Outcome(<<HeadingFormat(
                       [NewParagraph(style_name, src) EXCEPT
                            !.runs = IF text = <<>> THEN <<>>
                                     ELSE <<[Run EXCEPT !.text = text]>>],
                       config)>>, FALSE)

\* _handle_heading
HandleHeading(node, src, b) ==
    HeadingOutcome(GetNodeText(node),
                   "Heading " \o ToString(Get(Attrs(node), "level", 1)),
                   GetHeadingConfig(b, Get(Attrs(node), "level", 1)),
                   src)

\* str.rstrip("\n")
RECURSIVE RStripNewlines(_)
RStripNewlines(text) ==
    IF text # <<>> /\ text[Len(text)] = "\n"
    THEN RStripNewlines(SubSeq(text, 1, Len(text) - 1))
    ELSE text

CodeOutcome(code, src, b) ==
    IF ~XmlCompatible(code)
    THEN Outcome(<<[NewParagraph("Normal", src) EXCEPT !.runs = <<Run>>]>>, TRUE)
    ELSE Outcome(<<[NewParagraph("Normal", src) EXCEPT
                        !.runs = <<[Run EXCEPT !.text = code,
                                        !.name = {b.code_font.name},
                                        !.size = {b.code_font.size},
                                        !.color = FontColor(b.code_font.color)]>>,
                        !.shading = IF Truthy(b.code_background_color)
                                    THEN {Hex6(b.code_background_color)} ELSE {},
                        !.left_indent = {HalfInches(1) \div 2},
                        !.space_before = {Pt(6)},
                        !.space_after = {Pt(6)}]>>, FALSE)

\* _handle_code_block
HandleCodeBlock(node, src, b) ==
    CodeOutcome(RStripNewlines(Get(node, "raw", <<>>)), src, b)

\* A loop step that takes every child with children for a paragraph.
QuoteChildOfAnyType(acc, child, src, b) ==
    IF "children" \notin DOMAIN child THEN acc
    ELSE Outcome(
             acc.elems \o WithInlineContent(NewParagraph("Intense Quote", src),
                                            Children(child), b).elems,
             WithInlineContent(NewParagraph("Intense Quote", src),
                               Children(child), b).raised)

\* One more child of a block quote, after the children before it gave acc.
QuoteChild(acc, child, src, b) ==
    IF NodeType(child) # "paragraph" THEN acc
    ELSE Outcome(
             acc.elems \o WithInlineContent(NewParagraph("Intense Quote", src),
                                            Children(child), b).elems,
             WithInlineContent(NewParagraph("Intense Quote", src),
                               Children(child), b).raised)

\* The loop of _handle_block_quote from child k on.
RECURSIVE QuoteLoop(_, _, _, _, _)
QuoteLoop(acc, children, k, src, b) ==
    IF acc.raised \/ k > Len(children) THEN acc
    ELSE QuoteLoop(QuoteChild(acc, children[k], src \o <<k>>, b),
                   children, k + 1, src, b)

\* _handle_block_quote
HandleBlockQuote(node, src, b) == QuoteLoop(NoOutput, Children(node), 1, src, b)

\* The number of underscores of a horizontal rule.
RuleWidth == 50

\* _handle_thematic_break
HandleThematicBreak(node, src, b) ==
    Outcome(<<[NewParagraph("Normal", src) EXCEPT
                   !.runs = <<[Run EXCEPT !.text = [i \in 1..RuleWidth |-> "_"]]>>,
                   !.alignment = {"center"},
                   !.space_before = {Pt(12)},
                   !.space_after = {Pt(12)}]>>, FALSE)

\* _handle_newline
HandleNewline(node, src, b) == NoOutput

(***************************************************************************)
(* generator.py, _handle_table.                                            *)
(***************************************************************************)
\* The positions of the children of the given type.
ChildrenOfType(children, type) ==
    {i \in DOMAIN children : NodeType(children[i]) = type}

\* A cell of the table document.add_table(rows, cols) creates: one empty
\* paragraph, no run.
EmptyCell == [text |-> <<>>, runs |-> 0, bold |-> {}, alignment |-> {}]

\* _apply_table_cell_alignment
ApplyTableCellAlignment(cell, align) ==
    IF align \in {{"left"}, {"center"}, {"right"}}
    THEN [cell EXCEPT !.alignment = align]
    ELSE cell

\* cell_node.get("attrs", {}).get("align"): {} stands for None.
AlignOf(cell_node) ==
    IF "align" \in DOMAIN Attrs(cell_node) THEN {Attrs(cell_node).align} ELSE {}

\* cell.text = get_node_text(cell_node): the content of the cell becomes one
\* paragraph with one run holding the text.
SetCellText(cell, cell_node) ==
    [cell EXCEPT !.text = GetNodeText(cell_node), !.runs = 1]

\* One cell of the header row: text, alignment, every run bold.
HeaderCell(cell_node, align) ==
    [ApplyTableCellAlignment(SetCellText(EmptyCell, cell_node), align)
         EXCEPT !.bold = {TRUE}]

\* A body cell aligned by its own align attribute, not by its column's.
BodyCellOwnAlign(cell_node, align) ==
    ApplyTableCellAlignment(SetCellText(EmptyCell, cell_node), AlignOf(cell_node))

\* One cell of a body row: text and alignment.
BodyCell(cell_node, align) ==
    ApplyTableCellAlignment(SetCellText(EmptyCell, cell_node), align)

\* Row 0 of the table after the loop over the header cells.
HeaderRow(header_cells) ==
    [c \in 1..Len(header_cells) |->
        HeaderCell(header_cells[c], AlignOf(header_cells[c]))]

\* A body row that keeps the last num_cols cells of a longer row.
BodyRowKeepLast(row_cells, header_cells) ==
    [c \in 1..Len(header_cells) |->
        IF Len(row_cells) > Len(header_cells)
        THEN BodyCell(row_cells[c + Len(row_cells) - Len(header_cells)],
                      AlignOf(header_cells[c]))
        ELSE IF c <= Len(row_cells)
        THEN BodyCell(row_cells[c], AlignOf(header_cells[c]))
        ELSE EmptyCell]

\* A body row after the loop over its cells: the cells at col_idx >=
\* num_cols are passed over, the columns the row has no cell for stay as
\* add_table made them.
BodyRow(row_cells, header_cells) ==
    [c \in 1..Len(header_cells) |->
        IF c <= Len(row_cells)
        THEN BodyCell(row_cells[c], AlignOf(header_cells[c]))
        ELSE EmptyCell]

\* The table of num_rows = 1 + len(body_rows) rows and num_cols columns.
NewTable(header_cells, body_rows, src) ==
    [kind |-> "table", style |-> "Table Grid", cols |-> Len(header_cells),
     rows |-> <<HeaderRow(header_cells)>> \o
              [r \in 1..Len(body_rows) |->
                  BodyRow(Children(body_rows[r]), header_cells)],
     src |-> src]

\* _handle_table from "Get header cells" on, for the head and the body rows
\* the loop over the children found.
TableOf(header_cells, body_rows, src) ==
    IF header_cells = <<>> THEN NoOutput
    ELSE Outcome(<<NewTable(header_cells, body_rows, src),
                   NewParagraph("Normal", src)>>, FALSE)

\* The last child of the given type, as the loop `for child in children'
\* leaves it in head / body.
LastOfType(children, type) ==
    children[CHOOSE i \in ChildrenOfType(children, type) :
                 \A j \in ChildrenOfType(children, type) : j <= i]

\* A _handle_table that adds the spacing paragraph also after a table it
\* skips for want of a head.
HandleTableAlwaysSpacing(node, src, b) ==
    IF Children(node) = <<>> THEN NoOutput
    ELSE IF ChildrenOfType(Children(node), "table_head") = {}
    THEN Outcome(<<NewParagraph("Normal", src)>>, FALSE)
    ELSE TableOf(Children(LastOfType(Children(node), "table_head")),
                 IF ChildrenOfType(Children(node), "table_body") = {} THEN <<>>
                 ELSE Children(LastOfType(Children(node), "table_body")),
                 src)

\* _handle_table
HandleTable(node, src, b) ==
    IF Children(node) = <<>> THEN NoOutput
    ELSE IF ChildrenOfType(Children(node), "table_head") = {} THEN NoOutput
    ELSE TableOf(Children(LastOfType(Children(node), "table_head")),
                 IF ChildrenOfType(Children(node), "table_body") = {} THEN <<>>
                 ELSE Children(LastOfType(Children(node), "table_body")),
                 src)

\* A _process_node that hands a node of a type it has no handler for to
\* _handle_paragraph.
HandleBlockRendersUnknown(node, src, b) ==
    CASE NodeType(node) = "heading" -> HandleHeading(node, src, b)
      [] NodeType(node) = "block_code" -> HandleCodeBlock(node, src, b)
      [] NodeType(node) = "block_quote" -> HandleBlockQuote(node, src, b)
      [] NodeType(node) = "thematic_break" -> HandleThematicBreak(node, src, b)
      [] NodeType(node) = "table" -> HandleTable(node, src, b)
      [] NodeType(node) = "newline" -> HandleNewline(node, src, b)
      [] OTHER -> HandleParagraph(node, src, b)

\* _process_node for a node that is not a list: handlers.get(node_type) and
\* the call of the handler.
HandleBlock(node, src, b) ==
    CASE NodeType(node) = "heading" -> HandleHeading(node, src, b)
      [] NodeType(node) = "paragraph" -> HandleParagraph(node, src, b)
      [] NodeType(node) = "block_code" -> HandleCodeBlock(node, src, b)
      [] NodeType(node) = "block_quote" -> HandleBlockQuote(node, src, b)
      [] NodeType(node) = "thematic_break" -> HandleThematicBreak(node, src, b)
      [] NodeType(node) = "table" -> HandleTable(node, src, b)
      [] NodeType(node) = "newline" -> HandleNewline(node, src, b)
      [] OTHER -> NoOutput

(***************************************************************************)
(* generator.py, _handle_list_item: the paragraph of a list item.          *)
(***************************************************************************)
\* "List Number" or "List Bullet"
BaseListStyle(ordered) == IF ordered THEN "List Number" ELSE "List Bullet"

\* style_name: the base style, with " {self._list_level + 1}" after it when
\* the level is above 0.
ListStyleName(ordered, lvl) ==
    IF lvl > 0 THEN BaseListStyle(ordered) \o " " \o ToString(lvl + 1)
    ELSE BaseListStyle(ordered)

\* The except KeyError branch: the paragraph of the base style, with
\* left_indent = Inches(0.5 * (level + 1)) when the level is above 0.
FallbackParagraph(ordered, lvl, src) ==
    [NewParagraph(BaseListStyle(ordered), src) EXCEPT
         !.left_indent = IF lvl > 0 THEN {HalfInches(lvl + 1)} ELSE @]

\* Outcome r, after the elements first.
After(first, r) == Outcome(first \o r.elems, r.raised)

\* The body of `if child.get("type") in ("paragraph", "block_text")'.
\* add_paragraph(style=style_name) appends the paragraph before it looks
\* the style up, so a missing style leaves an empty paragraph behind.
HandleListParagraph(child, ordered, lvl, src, b) ==
    IF ListStyleName(ordered, lvl) \in DocStyles
    THEN WithInlineContent(NewParagraph(ListStyleName(ordered, lvl), src),
                           Children(child), b)
    ELSE After(<<NewParagraph("Normal", src)>>,
               WithInlineContent(FallbackParagraph(ordered, lvl, src),
                                 Children(child), b))

(***************************************************************************)
(* generator.py, _setup_document and _add_headers_footers.                 *)
(***************************************************************************)
\* Document(): the default template, no body element, header and footer
\* linked to the previous section (not defined).
NewDocument ==
    [body |-> <<>>,
     core |-> [title |-> <<>>, author |-> <<"python-docx">>, company |-> <<>>],
     section |-> [page_width |-> Inches(8) + HalfInches(1), page_height |-> Inches(11),
                  top_margin |-> Inches(1), bottom_margin |-> Inches(1),
                  left_margin |-> Inches(1) + HalfInches(1) \div 2,
                  right_margin |-> Inches(1) + HalfInches(1) \div 2],
     normal |-> [name |-> {}, size |-> {}, color |-> {}],
     header |-> [linked |-> TRUE, runs |-> <<>>, style |-> "Header"],
     footer |-> [linked |-> TRUE, runs |-> <<>>, style |-> "Footer"]]

\* _setup_document
SetupDocument(doc, b) ==
    [doc EXCEPT
        !.core = [title |-> IF b.title # <<>> THEN b.title ELSE @.title,
                  author |-> IF b.author # <<>> THEN b.author ELSE @.author,
                  company |-> IF b.company # <<>> THEN b.company ELSE @.company],
        !.section = [page_width |-> b.page_width, page_height |-> b.page_height,
                     top_margin |-> b.margin_top, bottom_margin |-> b.margin_bottom,
                     left_margin |-> b.margin_left, right_margin |-> b.margin_right],
        !.normal = [name |-> {b.body_font.name}, size |-> {b.body_font.size},
                    color |-> FontColor(b.body_font.color)]]

\* "Page "
PageNumText == <<"P", "a", "g", "e", " ">>

\* page_num_text if not content else f"{content} - {page_num_text}"
WithPageNum(content) ==
    IF content = <<>> THEN PageNumText
    ELSE content \o <<" ", "-", " ">> \o PageNumText

\* left_content, center_content, right_content after "Handle page number
\* placement".
ZoneContent(config, is_header, zone) ==
    IF ~is_header /\ config.include_page_number
       /\ zone = (IF config.page_number_position \in {"left", "center"}
                  THEN config.page_number_position ELSE "right")
    THEN WithPageNum(CASE zone = "left" -> config.left_text
                       [] zone = "center" -> config.text
                       [] OTHER -> config.right_text)
    ELSE CASE zone = "left" -> config.left_text
           [] zone = "center" -> config.text
           [] OTHER -> config.right_text

\* paragraph.add_run(text) followed by _apply_header_footer_font
ZoneRun(text, config) ==
    [Run EXCEPT !.text = text, !.name = {config.font_name},
                !.size = {config.font_size}, !.color = FontColor(config.color)]

\* What loading and inserting the logo can come to: no logo is configured;
\* the picture is inserted; load_image raises; add_picture raises.
LogoOutcomes(config) ==
    IF config.logo_path = <<>> THEN {"none"}
    ELSE {"added", "load_failed", "insert_failed"}

\* width = Inches(config.logo_width) if config.logo_width else Inches(0.5)
LogoWidth(config) ==
    IF Truthy(config.logo_width) THEN Inches(config.logo_width.n)
    ELSE HalfInches(1)

\* The runs before the picture: none in the left zone, a tab before the
\* center zone, two tabs before the right zone.
LogoLead(config) ==
    CASE config.logo_position = "left" -> <<>>
      [] config.logo_position = "center" -> <<[Run EXCEPT !.text = <<"\t">>]>>
      [] OTHER -> <<[Run EXCEPT !.text = <<"\t", "\t">>]>>

\* _add_logo_to_zone: the runs it leaves in the paragraph.
LogoRuns(config, logo) ==
    CASE logo = "added" ->
             LogoLead(config)
             \o <<[kind |-> "picture", width |-> LogoWidth(config)]>>
             \o (IF config.logo_position = "left"
                 THEN <<[Run EXCEPT !.text = <<" ">>]>> ELSE <<>>)
      [] logo = "insert_failed" -> LogoLead(config) \o <<Run>>
      [] OTHER -> <<>>

\* if not (logo_added and config.logo_position == zone): the run of the zone
ZoneRuns(config, is_header, zone, logo) ==
    IF logo = "added" /\ config.logo_position = zone THEN <<>>
    ELSE <<ZoneRun(ZoneContent(config, is_header, zone), config)>>

\* _add_page_number: a run holding the PAGE field.
PageNumberRuns(config, is_header) ==
    IF ~is_header /\ config.include_page_number
    THEN <<[kind |-> "field", instr |-> <<"P", "A", "G", "E">>]>>
    ELSE <<>>

\* _build_header_footer_content: the runs of the paragraph afterwards.
BuildHeaderFooterContent(config, is_header, logo) ==
    LogoRuns(config, logo)
    \o ZoneRuns(config, is_header, "left", logo)
    \o <<[Run EXCEPT !.text = <<"\t">>]>>
    \o ZoneRuns(config, is_header, "center", logo)
    \o <<[Run EXCEPT !.text = <<"\t">>]>>
    \o ZoneRuns(config, is_header, "right", logo)
    \o PageNumberRuns(config, is_header)

\* A condition that takes a logo for content as well.
HasHeaderOrLogo(config) ==
    \/ config.text # <<>> \/ config.left_text # <<>> \/ config.right_text # <<>>
    \/ config.logo_path # <<>>

\* if header_config.text or header_config.left_text or header_config.right_text
HasHeader(config) ==
    config.text # <<>> \/ config.left_text # <<>> \/ config.right_text # <<>>

\* ... or footer_config.include_page_number
HasFooter(config) == HasHeader(config) \/ config.include_page_number

\* _add_headers_footers
AddHeadersFooters(doc, b, header_logo, footer_logo) ==
    [doc EXCEPT
        !.header = IF HasHeader(b.header)
                   THEN [linked |-> FALSE,
                         runs |-> BuildHeaderFooterContent(b.header, TRUE, header_logo),
                         style |-> "Header"]
                   ELSE @,
        !.footer = IF HasFooter(b.footer)
                   THEN [linked |-> FALSE,
                         runs |-> BuildHeaderFooterContent(b.footer, FALSE, footer_logo),
                         style |-> "Footer"]
                   ELSE @]

(***************************************************************************)
(* The trees handed to generate: the nodes mistune's AST renderer makes,   *)
(* and nodes that lack some of their keys.                                 *)
(***************************************************************************)
TextNode(raw) == [type |-> "text", raw |-> raw]

InlineNode(type, children) == [type |-> type, children |-> children]

ParagraphNode(children) == [type |-> "paragraph", children |-> children]

HeadingNode(lvl, children) ==
    [type |-> "heading", attrs |-> [level |-> lvl], children |-> children]

ListNode(ordered, items) ==
    [type |-> "list", attrs |-> [ordered |-> ordered], children |-> items]

ListItemNode(children) == [type |-> "list_item", children |-> children]

PlainParagraph ==
    ParagraphNode(<<TextNode(<<"a">>), InlineNode("strong", <<TextNode(<<"b">>)>>)>>)

RichParagraph ==
    ParagraphNode(<<InlineNode("emphasis", <<TextNode(<<"e">>)>>),
                    [type |-> "codespan", raw |-> <<"c">>],
                    [type |-> "link", link |-> <<"u">>,
                     children |-> <<TextNode(<<"l">>)>>],
                    [type |-> "softbreak"],
                    [type |-> "linebreak"],
                    InlineNode("strikethrough", <<TextNode(<<"s">>)>>),
                    InlineNode("image", <<TextNode(<<"i">>)>>)>>)

\* A paragraph whose second text holds a control character.
BadParagraph == ParagraphNode(<<TextNode(<<"a">>), TextNode(<<"^A">>)>>)

OtherBlocks ==
    {PlainParagraph, RichParagraph, BadParagraph,
     HeadingNode(1, <<TextNode(<<"h">>)>>),
     HeadingNode(0, <<TextNode(<<"h">>)>>),
     [type |-> "heading", children |-> <<TextNode(<<"h">>)>>],
     [type |-> "block_code", raw |-> <<"x", "\n", "\n">>],
     [type |-> "block_quote",
      children |-> <<PlainParagraph, [type |-> "block_code", raw |-> <<"x">>],
                     RichParagraph>>],
     [type |-> "thematic_break"],
     [type |-> "newline"],
     [type |-> "block_html", raw |-> <<"<", ">">>],
     [raw |-> <<"a">>]}

\* The deepest nesting of the lists.
MaxDepth == 4

\* A list of one item per level: the item of the innermost list holds leaf,
\* every other item a paragraph, the nested list and a block_text after it.
RECURSIVE ListChain(_, _, _)
ListChain(kinds, leaf, d) ==
    ListNode(Head(kinds),
             <<ListItemNode(
                 IF Len(kinds) = 1 THEN <<leaf>>
                 ELSE <<ParagraphNode(<<TextNode(<<ToString(d)>>)>>),
                        ListChain(Tail(kinds), leaf, d + 1),
                        [type |-> "block_text",
                         children |-> <<TextNode(<<"t", ToString(d)>>)>>]>>)>>)

\* A list without attrs, with a child that is no list item, an item that
\* holds a code block and two paragraphs, and an empty item.
OddList ==
    [type |-> "list",
     children |-> <<TextNode(<<"a">>),
                    ListItemNode(<<[type |-> "block_code", raw |-> <<"x">>],
                                   PlainParagraph, PlainParagraph>>),
                    [type |-> "list_item"]>>]

ListSamples ==
    UNION {{ListChain(kinds, PlainParagraph, 0) : kinds \in [1..n -> BOOLEAN]} :
              n \in 1..MaxDepth}
    \cup {ListChain([i \in 1..n |-> FALSE], BadParagraph, 0) : n \in 1..MaxDepth}
    \cup {OddList}

\* The most header cells and the most body rows of a table.
MaxCols == 3

MaxRows == 2

\* The content of the cell in row r (0 for the header), column c: a text, a
\* strong wrapper and a text, or no children at all.
CellChildren(r, c) ==
    CASE (r + c) % 3 = 0 -> <<TextNode(<<ToString(r), ".", ToString(c)>>)>>
      [] (r + c) % 3 = 1 ->
             <<InlineNode("strong", <<TextNode(<<ToString(r)>>)>>),
               TextNode(<<" ", ToString(c)>>)>>
      [] OTHER -> <<>>

\* A header cell; the first column is not aligned.
HeaderCellNode(c) ==
    IF c = 1
    THEN [type |-> "table_cell", attrs |-> [head |-> TRUE],
          children |-> CellChildren(0, c)]
    ELSE [type |-> "table_cell",
          attrs |-> [head |-> TRUE,
                     align |-> <<"center", "right", "left">>[(c % 3) + 1]],
          children |-> CellChildren(0, c)]

\* A body cell; its own align attribute differs from its column's.
BodyCellNode(r, c) ==
    IF CellChildren(r, c) = <<>>
    THEN [type |-> "table_cell", attrs |-> [head |-> FALSE, align |-> "right"]]
    ELSE [type |-> "table_cell", attrs |-> [head |-> FALSE, align |-> "right"],
          children |-> CellChildren(r, c)]

TableHeadNode(n) ==
    [type |-> "table_head", children |-> [c \in 1..n |-> HeaderCellNode(c)]]

TableBodyNode(lens) ==
    [type |-> "table_body",
     children |-> [r \in 1..Len(lens) |->
                      [type |-> "table_row",
                       children |-> [c \in 1..lens[r] |-> BodyCellNode(r, c)]]]]

TableNode(children) == [type |-> "table", children |-> children]

\* The numbers of cells of the body rows of a table of n columns: one
\* fewer, as many, one more.
RowLens(n) == {k \in {n - 1, n, n + 1} : k >= 0}

BodyLens(n) == UNION {[1..k -> RowLens(n)] : k \in 0..MaxRows}

HeadedTables ==
    UNION {{TableNode(<<TableHeadNode(n), TableBodyNode(lens)>>) :
               lens \in BodyLens(n)} : n \in 0..MaxCols}
    \cup {TableNode(<<TableHeadNode(n)>>) : n \in 0..MaxCols}
    \cup {TableNode(<<TableBodyNode(<<1>>), TableHeadNode(2)>>)}

HeadlessTables ==
    {TableNode(<<TableBodyNode(lens)>>) : lens \in BodyLens(1)}
    \cup {TableNode(<<>>), [type |-> "table"]}

TableSamples == HeadedTables \cup HeadlessTables

\* Nodes _process_node has no handler for: a type of mistune's that the
\* generator does not render, no type, a type with children, an inline
\* type, and the type of a list's child.
UnknownBlocks ==
    {[type |-> "block_html", raw |-> <<"<", ">">>],
     [raw |-> <<"a">>],
     [type |-> "footnotes", children |-> <<PlainParagraph>>],
     TextNode(<<"a">>),
     ListItemNode(<<PlainParagraph>>)}

\* A quote with a nested quote, a list, a code block and a table between
\* two paragraphs.
MixedQuote ==
    [type |-> "block_quote",
     children |-> <<PlainParagraph,
                    [type |-> "block_quote", children |-> <<PlainParagraph>>],
                    ListNode(FALSE, <<ListItemNode(<<PlainParagraph>>)>>),
                    [type |-> "block_code", raw |-> <<"x">>],
                    TableNode(<<TableHeadNode(1), TableBodyNode(<<1>>)>>),
                    RichParagraph>>]

\* A tree is one list or one other block, or a table or a node without a
\* handler between a paragraph and a heading.
Asts ==
    {<<node>> : node \in ListSamples \cup OtherBlocks \cup {MixedQuote}}
    \cup {<<PlainParagraph, node, HeadingNode(2, <<TextNode(<<"h">>)>>)>> :
             node \in TableSamples \cup UnknownBlocks}
    \cup {<<>>}

\* The branding WordGenerator is constructed with: the default, and one
\* with a coloured body font, an Arial first heading, a title, header
\* texts and a header logo.
CustomBranding ==
    [BrandingConfig EXCEPT
        !.title = <<"T">>,
        !.body_font.color = Rgb(18, 52, 86),
        !.heading1.font_name = "Arial",
        !.header.left_text = <<"L">>,
        !.header.logo_path = <<"logo.png">>,
        !.header.logo_position = "center",
        !.footer.text = <<"F">>]

GenBrandings == {BrandingConfig, CustomBranding}

(***************************************************************************)
(* generator.py, WordGenerator: generate and the traversal it starts.  The *)
(* calls in progress are the frames of the stack: the function, the path   *)
(* of the node whose children its loop goes through, the position of the   *)
(* loop, and for the list functions the `ordered' of the list.  When a     *)
(* call raises, the stack stays as the traceback has it.                   *)
(***************************************************************************)
\* The highest level a generate call is started with: every call that
\* raised inside a nested list left the level higher.
MaxStaleLevel == 1

Frame(fn, path, ordered) ==
    [fn |-> fn, path |-> path, idx |-> 1, ordered |-> ordered]

Top == stack[Len(stack)]

\* The call on top of the stack is in function fn.
Running(fn) == status = "running" /\ Top.fn = fn

\* The loop on top of the stack goes on to its next element.
Advance(s) == [s EXCEPT ![Len(s)].idx = @ + 1]

\* The call on top of the stack returns, and the loop of its caller goes on.
ReturnTo(s) == Advance(SubSeq(s, 1, Len(s) - 1))

RECURSIVE NodeIn(_, _)
NodeIn(nodes, path) ==
    IF Len(path) = 1 THEN nodes[path[1]]
    ELSE NodeIn(Children(nodes[path[1]]), Tail(path))

\* The node of the tree at the path.
NodeAt(path) == NodeIn(ast, path)

\* The nodes the loop on top of the stack goes through.
LoopNodes == IF Top.path = <<>> THEN ast ELSE Children(NodeAt(Top.path))

\* The loop on top of the stack has a node to handle.
AtNode == Top.idx <= Len(LoopNodes)

CurrentNode == LoopNodes[Top.idx]

CurrentPath == Top.path \o <<Top.idx>>

\* A handler that puts its elements at the head of the body.
EmitAtHead(r) ==
    /\ document' = [document EXCEPT !.body = r.elems \o @]
    /\ IF r.raised
       THEN status' = "raised" /\ stack' = stack
       ELSE status' = status /\ stack' = Advance(stack)

\* The handler appended r.elems to the body, and raised or returned.
Emit(r) ==
    /\ document' = [document EXCEPT !.body = @ \o r.elems]
    /\ IF r.raised
       THEN status' = "raised" /\ stack' = stack
       ELSE status' = status /\ stack' = Advance(stack)

\* WordGenerator(branding)
GenInit ==
    /\ branding \in GenBrandings
    /\ ast = <<>>
    /\ document = None
    /\ list_level = 0
    /\ stack = <<>>
    /\ status = "idle"

\* generate(ast) up to the call of _process_nodes
Generate(tree) ==
    /\ status # "running"
    /\ list_level <= MaxStaleLevel
    /\ ast' = tree
    /\ document' = SetupDocument(NewDocument, branding)
    /\ stack' = <<Frame("_process_nodes", <<>>, FALSE)>>
    /\ status' = "running"
    /\ UNCHANGED <<branding, list_level>>

\* _process_node for a node that is not a list
ProcessNode ==
    /\ Running("_process_nodes") /\ AtNode
    /\ NodeType(CurrentNode) # "list"
    /\ Emit(HandleBlock(CurrentNode, CurrentPath, branding))
    /\ UNCHANGED <<branding, ast, list_level>>

\* _process_node for a list: the call of _handle_list
ProcessList ==
    /\ Running("_process_nodes") /\ AtNode
    /\ NodeType(CurrentNode) = "list"
    /\ stack' = Append(stack, Frame("_handle_list", CurrentPath,
                                    Get(Attrs(CurrentNode), "ordered", FALSE)))
    /\ UNCHANGED <<branding, ast, document, list_level, status>>

\* _handle_list: the call of _handle_list_item for an item
HandleListItem ==
    /\ Running("_handle_list") /\ AtNode
    /\ NodeType(CurrentNode) = "list_item"
    /\ stack' = Append(stack, Frame("_handle_list_item", CurrentPath, Top.ordered))
    /\ UNCHANGED <<branding, ast, document, list_level, status>>

\* _handle_list: a child that is no list item
SkipListChild ==
    /\ Running("_handle_list") /\ AtNode
    /\ NodeType(CurrentNode) # "list_item"
    /\ stack' = Advance(stack)
    /\ UNCHANGED <<branding, ast, document, list_level, status>>

\* _handle_list returns: to _process_node, or to _handle_list_item, which
\* then does self._list_level -= 1
ReturnFromList ==
    /\ Running("_handle_list") /\ ~AtNode
    /\ stack' = ReturnTo(stack)
    /\ list_level' = IF stack[Len(stack) - 1].fn = "_handle_list_item"
                     THEN list_level - 1 ELSE list_level
    /\ UNCHANGED <<branding, ast, document, status>>

\* _handle_list_item: a paragraph or block_text child
ListItemParagraph ==
    /\ Running("_handle_list_item") /\ AtNode
    /\ NodeType(CurrentNode) \in {"paragraph", "block_text"}
    /\ Emit(HandleListParagraph(CurrentNode, Top.ordered, list_level,
                                CurrentPath, branding))
    /\ UNCHANGED <<branding, ast, list_level>>

\* _handle_list_item: a nested list; self._list_level += 1 and the call of
\* _handle_list
ListItemNestedList ==
    /\ Running("_handle_list_item") /\ AtNode
    /\ NodeType(CurrentNode) = "list"
    /\ list_level' = list_level + 1
    /\ stack' = Append(stack, Frame("_handle_list", CurrentPath,
                                    Get(Attrs(CurrentNode), "ordered", FALSE)))
    /\ UNCHANGED <<branding, ast, document, status>>

\* _handle_list_item: any other child
SkipItemChild ==
    /\ Running("_handle_list_item") /\ AtNode
    /\ NodeType(CurrentNode) \notin {"paragraph", "block_text", "list"}
    /\ stack' = Advance(stack)
    /\ UNCHANGED <<branding, ast, document, list_level, status>>

\* _handle_list_item returns to _handle_list
ReturnFromListItem ==
    /\ Running("_handle_list_item") /\ ~AtNode
    /\ stack' = ReturnTo(stack)
    /\ UNCHANGED <<branding, ast, document, list_level, status>>

\* _process_nodes returns; generate adds the headers and footers and
\* returns the document
ReturnDocument ==
    /\ Running("_process_nodes") /\ ~AtNode
    /\ \E header_logo \in LogoOutcomes(branding.header) :
       \E footer_logo \in LogoOutcomes(branding.footer) :
           document' = AddHeadersFooters(document, branding, header_logo, footer_logo)
    /\ stack' = <<>>
    /\ status' = "returned"
    /\ UNCHANGED <<branding, ast, list_level>>

InitGen == GenInit /\ ColorIdle /\ BrandIdle /\ ObjIdle /\ ImageIdle /\ ServiceIdle /\ TextIdle /\ PairIdle /\ BytesIdle

NextGen ==
    \/ \E tree \in Asts : Generate(tree) /\ UNCHANGED <<colorVars, brandVars, objVars, imgVars, svcVars, textVars, pairVars, bytesVars>>
    \/ ProcessNode /\ UNCHANGED <<colorVars, brandVars, objVars, imgVars, svcVars, textVars, pairVars, bytesVars>>
    \/ ProcessList /\ UNCHANGED <<colorVars, brandVars, objVars, imgVars, svcVars, textVars, pairVars, bytesVars>>
    \/ HandleListItem /\ UNCHANGED <<colorVars, brandVars, objVars, imgVars, svcVars, textVars, pairVars, bytesVars>>
    \/ SkipListChild /\ UNCHANGED <<colorVars, brandVars, objVars, imgVars, svcVars, textVars, pairVars, bytesVars>>
    \/ ReturnFromList /\ UNCHANGED <<colorVars, brandVars, objVars, imgVars, svcVars, textVars, pairVars, bytesVars>>
    \/ ListItemParagraph /\ UNCHANGED <<colorVars, brandVars, objVars, imgVars, svcVars, textVars, pairVars, bytesVars>>
    \/ ListItemNestedList /\ UNCHANGED <<colorVars, brandVars, objVars, imgVars, svcVars, textVars, pairVars, bytesVars>>
    \/ SkipItemChild /\ UNCHANGED <<colorVars, brandVars, objVars, imgVars, svcVars, textVars, pairVars, bytesVars>>
    \/ ReturnFromListItem /\ UNCHANGED <<colorVars, brandVars, objVars, imgVars, svcVars, textVars, pairVars, bytesVars>>
    \/ ReturnDocument /\ UNCHANGED <<colorVars, brandVars, objVars, imgVars, svcVars, textVars, pairVars, bytesVars>>

SpecGen == InitGen /\ [][NextGen]_vars

(***************************************************************************)
(* images.py: load_image and the allowlist of remote hosts.  A reference   *)
(* is a string, modelled as the sequence of the pieces it is made of; a    *)
(* host name is the sequence of its pieces.                                *)
(***************************************************************************)
\* The longest reference, in pieces.
MaxRefLen == 3

SchemeTokens == {"http://", "https://"}

\* The pieces of the references; one that starts with no scheme is a path.
RefTokens == SchemeTokens \cup {"a.com", "B.com", "u@", "/x.svg"}

Refs == UNION {[1..n -> RefTokens] : n \in 0..MaxRefLen}

\* str.lower, on a piece of a host name
Lower(token) == IF token = "B.com" THEN "b.com" ELSE token

\* path_or_url.startswith(("http://", "https://"))
IsUrl(path_or_url) == path_or_url # <<>> /\ Head(path_or_url) \in SchemeTokens

\* urlparse(url).netloc: what follows the scheme, up to the first "/".  A
\* second "http://" ends it with its "/", after the piece "http" and a ":".
RECURSIVE Netloc(_)
Netloc(rest) ==
    IF rest = <<>> \/ Head(rest) = "/x.svg" THEN <<>>
    ELSE IF Head(rest) = "http://" THEN <<"http">>
    ELSE IF Head(rest) = "https://" THEN <<"https">>
    ELSE <<Head(rest)>> \o Netloc(Tail(rest))

\* The netloc after its last "@".
AfterUserinfo(netloc) ==
    IF \E k \in DOMAIN netloc : netloc[k] = "u@"
    THEN SubSeq(netloc,
                1 + CHOOSE k \in DOMAIN netloc :
                        /\ netloc[k] = "u@"
                        /\ \A j \in DOMAIN netloc : netloc[j] = "u@" => j <= k,
                Len(netloc))
    ELSE netloc

\* urlparse(url).hostname, in lower case; <<>> stands for None.
Hostname(url) ==
    [k \in DOMAIN AfterUserinfo(Netloc(Tail(url))) |->
        Lower(AfterUserinfo(Netloc(Tail(url)))[k])]

\* str.strip on an entry of the environment variable
RECURSIVE LStrip(_), RStrip(_)
LStrip(s) == IF s # <<>> /\ Head(s) = " " THEN LStrip(Tail(s)) ELSE s

RStrip(s) ==
    IF s # <<>> /\ s[Len(s)] = " " THEN RStrip(SubSeq(s, 1, Len(s) - 1)) ELSE s

Strip(s) == RStrip(LStrip(s))

\* The default provider: {host.strip() for host in
\* os.getenv(ALLOWED_HOSTS_ENV, "").split(",") if host.strip()}
EnvHosts(env) == {Strip(env[k]) : k \in DOMAIN env} \ {<<>>}

\* _allowed_hosts_provider()
AllowedHosts(provider, env) ==
    IF provider.kind = "env" THEN EnvHosts(env) ELSE provider.hosts

\* An _is_host_allowed for which an empty allowlist allows every host.
IsHostAllowedWhenListEmpty(url, allowed_hosts) ==
    /\ Hostname(url) # <<>>
    /\ allowed_hosts = {} \/ Hostname(url) \in allowed_hosts

\* _is_host_allowed, for the set the provider returns
IsHostAllowed(url, allowed_hosts) ==
    /\ Hostname(url) # <<>>
    /\ allowed_hosts # {} /\ Hostname(url) \in allowed_hosts

\* The values of the environment variable: not set, one host, entries with
\* blanks around them and an empty entry, a host in capitals and an entry
\* with a blank inside.
EnvSamples ==
    {<<>>,
     <<<<"a.com">>>>,
     <<<<" ", "a.com", " ">>, <<" ">>, <<>>>>,
     <<<<"B.com">>, <<"a.com", " ", "a.com">>>>}

\* The sets the providers handed to set_allowed_hosts_provider return.
ProviderSamples == {{}, {<<"a.com">>}, {<<"a.com">>, <<"b.com">>}}

NoImage ==
    [pc |-> "idle", ref |-> <<>>, allowed |-> {}, requested |-> <<>>, exc |-> ""]

\* load_image has raised exc; allowed_hosts is what the provider returns.
ImageRaised(ref, allowed_hosts, exc) ==
    [pc |-> "raised", ref |-> ref, allowed |-> allowed_hosts,
     requested |-> <<>>, exc |-> exc]

\* _convert_svg_to_png: the image, ImportError without cairosvg, ValueError
\* when the conversion fails.
ConvertOutcomes == {"converted", "no_cairosvg", "svg_failed"}

\* The call has ended with the outcome of reading or converting the data.
ImageLoaded(img, outcome) ==
    CASE outcome \in {"read", "converted"} -> [img EXCEPT !.pc = "returned"]
      [] outcome = "no_cairosvg" -> [img EXCEPT !.pc = "raised", !.exc = "ImportError"]
      [] OTHER -> [img EXCEPT !.pc = "raised", !.exc = "ValueError"]

\* url.lower().endswith(".svg") / file_path.suffix.lower() == ".svg"
EndsWithSvg(ref) == ref[Len(ref)] = "/x.svg"

\* _load_local_image: the file is missing, or is read, or is converted.
LocalOutcomes(path) ==
    {"missing"} \cup (IF EndsWithSvg(path) THEN ConvertOutcomes ELSE {"read"})

ImageInit ==
    /\ environ \in EnvSamples
    /\ hosts_provider = [kind |-> "env"]
    /\ image = NoImage

\* load_image(path_or_url), up to the call of requests.get for a URL whose
\* host is allowed, and to its end for every other reference.
LoadImage(path_or_url, has_requests) ==
    /\ image.pc = "idle"
    /\ IF path_or_url = <<>>
       THEN image' = ImageRaised(path_or_url, AllowedHosts(hosts_provider, environ),
                                 "ValueError")
       ELSE IF IsUrl(path_or_url)
       THEN IF ~IsHostAllowed(path_or_url, AllowedHosts(hosts_provider, environ))
            THEN image' = ImageRaised(path_or_url,
                                      AllowedHosts(hosts_provider, environ),
                                      "ValueError")
            ELSE IF ~has_requests
            THEN image' = ImageRaised(path_or_url,
                                      AllowedHosts(hosts_provider, environ),
                                      "ImportError")
            ELSE image' = [pc |-> "downloading", ref |-> path_or_url,
                           allowed |-> AllowedHosts(hosts_provider, environ),
                           requested |-> <<path_or_url>>, exc |-> ""]
       ELSE \E outcome \in LocalOutcomes(path_or_url) :
                image' = ImageLoaded(
                             [NoImage EXCEPT
                                 !.ref = path_or_url,
                                 !.allowed = AllowedHosts(hosts_provider, environ)],
                             outcome)
    /\ UNCHANGED <<environ, hosts_provider>>

\* _download_image from the return of requests.get on: the request failed
\* or timed out (ValueError), or the content is returned or converted.
DownloadImage ==
    /\ image.pc = "downloading"
    /\ \E outcome \in {"request_failed", "read"} \cup ConvertOutcomes :
           image' = ImageLoaded(image, outcome)
    /\ UNCHANGED <<environ, hosts_provider>>

\* _add_logo_to_zone goes on with the stream, or with the exception.
TakeImage ==
    /\ image.pc \in {"returned", "raised"}
    /\ image' = NoImage
    /\ UNCHANGED <<environ, hosts_provider>>

\* set_allowed_hosts_provider(provider)
SetAllowedHostsProvider(hosts) ==
    /\ hosts_provider' = [kind |-> "custom", hosts |-> hosts]
    /\ UNCHANGED <<environ, image>>

InitImage == ImageInit /\ ColorIdle /\ BrandIdle /\ ObjIdle /\ GenIdle /\ ServiceIdle /\ TextIdle /\ PairIdle /\ BytesIdle

NextImage ==
    \/ \E ref \in Refs : \E has_requests \in BOOLEAN :
           LoadImage(ref, has_requests) /\ UNCHANGED <<colorVars, brandVars, objVars, genVars, svcVars, textVars, pairVars, bytesVars>>
    \/ DownloadImage /\ UNCHANGED <<colorVars, brandVars, objVars, genVars, svcVars, textVars, pairVars, bytesVars>>
    \/ TakeImage /\ UNCHANGED <<colorVars, brandVars, objVars, genVars, svcVars, textVars, pairVars, bytesVars>>
    \/ \E hosts \in ProviderSamples :
           SetAllowedHostsProvider(hosts) /\ UNCHANGED <<colorVars, brandVars, objVars, genVars, svcVars, textVars, pairVars, bytesVars>>

SpecImage == InitImage /\ [][NextImage]_vars

(***************************************************************************)
(* api.py and cli.py: the entry points of a conversion.  A request holds   *)
(* the size in bytes of the Markdown text and the tree the parser makes of *)
(* it; `calls' records the order in which the handler calls from_dict, the *)
(* parser, the generator, to_bytes, _sanitize_filename and save.           *)
(***************************************************************************)
\* Maximum accepted markdown size (in bytes)
MAX_MARKDOWN_SIZE == 5 * 1024 * 1024

\* The longest file name, in characters (an extension counts as one).
MaxNameLen == 3

\* The number of parts python-docx writes into the package.
PackageParts == 3

\* "^@" stands for the character U+0000.
NameChars == {"a", " ", "/", "\\", "\t", "^@", ".md"}

Names == UNION {[1..n -> NameChars] : n \in 0..MaxNameLen}

\* The characters of the class [\\/\r\n\t]
Separators == {"\\", "/", "\r", "\n", "\t"}

\* re.sub(r"[\\/\r\n\t]+", "_", name): one "_" for each run of separators
RECURSIVE ReplaceSeparators(_)
ReplaceSeparators(name) ==
    IF name = <<>> THEN <<>>
    ELSE IF Head(name) \notin Separators
    THEN <<Head(name)>> \o ReplaceSeparators(Tail(name))
    ELSE IF Len(name) > 1 /\ name[2] \in Separators
    THEN ReplaceSeparators(Tail(name))
    ELSE <<"_">> \o ReplaceSeparators(Tail(name))

\* "document.docx"
DefaultFilename == <<"document", ".docx">>

\* _sanitize_filename(name, default)
SanitizeFilename(name, default) ==
    IF name.t = "none" THEN default
    ELSE IF name.s = <<>> THEN default
    ELSE IF Strip(ReplaceSeparators(name.s)) = <<>> THEN default
    ELSE Strip(ReplaceSeparators(name.s))

\* any(file.filename.lower().endswith(ext) for ext in allowed_extensions)
AllowedExtension(name) == name # <<>> /\ name[Len(name)] = ".md"

\* file.filename.rsplit(".", 1)[0]: the name before its last dot
RSplitDot(name) ==
    IF \E k \in DOMAIN name : name[k] = ".md"
    THEN SubSeq(name, 1,
                (CHOOSE k \in DOMAIN name :
                     /\ name[k] = ".md"
                     /\ \A j \in DOMAIN name : name[j] = ".md" => j <= k) - 1)
    ELSE name

\* raise HTTPException(status_code=code, detail=detail); for the command,
\* the exit status and what it prints.
Respond(code, detail) == [code |-> code, detail |-> detail, filename |-> None]

\* StreamingResponse(..., headers={"Content-Disposition": ...filename...})
Download(name) == [code |-> 200, detail |-> "", filename |-> Str(name)]

Handled(made, resp) == [calls |-> made, response |-> resp]

\* len(markdown.encode("utf-8")) > MAX_MARKDOWN_SIZE
TooLarge(size) == size > MAX_MARKDOWN_SIZE

\* `if convert_request.branding:' / `if branding:' -- from_dict is called
\* for a dictionary that is not empty (a JSON text is never empty).
CallsFromDict(req) ==
    /\ req.branding.t = "dict"
    /\ req.endpoint = "/convert" => req.branding.d # EmptyDict

\* What generate raises for the tree: the ValueError of lxml for a control
\* character in a text (the trees of the requests hold no list).
GenerateError(tree, config) ==
    IF \E k \in DOMAIN tree : HandleBlock(tree[k], <<k>>, config).raised
    THEN "ValueError" ELSE ""

\* generator = WordGenerator(branding); generate_from_markdown; to_bytes;
\* the response with the file name.  `except ValueError' answers 400.
Generated(req, config, made, name) ==
    IF GenerateError(req.tree, config) = "ValueError"
    THEN Handled(made \o <<"parse", "generate">>,
                 Respond(400, "Invalid branding configuration"))
    ELSE Handled(made \o <<"parse", "generate", "to_bytes", "_sanitize_filename">>,
                 Download(name))

\* parse_markdown
ParseResult(req) ==
    IF TooLarge(req.size)
    THEN Handled(<<>>, Respond(413, "Markdown payload is too large"))
    ELSE Handled(<<"parse">>, Respond(200, ""))

\* convert_markdown from the size check on
ConvertSized(req, config, made) ==
    IF TooLarge(req.size)
    THEN Handled(made, Respond(413, "Markdown payload is too large"))
    ELSE Generated(req, config, made, SanitizeFilename(req.filename, DefaultFilename))

\* convert_markdown
ConvertResult(req) ==
    IF ~CallsFromDict(req) THEN ConvertSized(req, BrandingConfig, <<>>)
    ELSE IF FromDict(req.branding.d).st = "raised"
    THEN Handled(<<"from_dict">>, Respond(400, "Invalid branding configuration"))
    ELSE ConvertSized(req, FromDict(req.branding.d).v, <<"from_dict">>)

\* convert_markdown_file from "Parse branding config from JSON string" on
ConvertFileBranded(req, name) ==
    IF req.branding.t = "bad_json"
    THEN Handled(<<>>, Respond(400, "Branding must be valid JSON"))
    ELSE IF ~CallsFromDict(req) THEN Generated(req, BrandingConfig, <<>>, name)
    ELSE IF FromDict(req.branding.d).st = "raised"
    THEN Handled(<<"from_dict">>, Respond(400, "Invalid branding configuration"))
    ELSE Generated(req, FromDict(req.branding.d).v, <<"from_dict">>, name)

\* convert_markdown_file; content = await file.read(MAX_MARKDOWN_SIZE + 1)
ConvertFileResult(req) ==
    IF req.filename.t = "none" \/ req.filename.s = <<>>
    THEN Handled(<<>>, Respond(400, "No filename provided"))
    ELSE IF ~AllowedExtension(req.filename.s)
    THEN Handled(<<>>, Respond(400, "Invalid file type"))
    ELSE IF Min(req.size, MAX_MARKDOWN_SIZE + 1) > MAX_MARKDOWN_SIZE
    THEN Handled(<<>>, Respond(413, "Uploaded file is too large"))
    ELSE IF ~req.utf8
    THEN Handled(<<>>, Respond(400, "File must be UTF-8 encoded text"))
    ELSE ConvertFileBranded(
             req,
             SanitizeFilename(Str(RSplitDot(req.filename.s) \o <<".docx">>),
                              DefaultFilename))

\* main from `generator = WordGenerator(branding)' to the call of save
MainGenerated(req, config, made) ==
    IF GenerateError(req.tree, config) # ""
    THEN Handled(made \o <<"generate">>, Respond(1, "Error generating Word document"))
    ELSE Handled(made \o <<"generate", "save">>, None)

\* main from load_branding_config on: a missing file and invalid JSON give
\* the defaults; what from_dict raises is caught nowhere and ends the
\* command with a traceback.
MainBranded(req, made) ==
    IF req.branding.t # "dict" THEN MainGenerated(req, BrandingConfig, made)
    ELSE IF FromDict(req.branding.d).st = "raised"
    THEN Handled(made \o <<"from_dict">>, Respond(1, "Traceback: ValueError"))
    ELSE MainGenerated(req, FromDict(req.branding.d).v, made \o <<"from_dict">>)

\* main of cli.py, up to the call of generator.save
MainResult(req) ==
    IF ~req.input_exists THEN Handled(<<>>, Respond(1, "Input file not found"))
    ELSE IF req.ast_only THEN Handled(<<"parse">>, Respond(0, "Abstract Syntax Tree"))
    ELSE MainBranded(req, <<"parse">>)

(***************************************************************************)
(* The requests.                                                           *)
(***************************************************************************)
SizeSamples == {1, MAX_MARKDOWN_SIZE, MAX_MARKDOWN_SIZE + 1}

\* What the parser makes of the text: a paragraph, or a paragraph with a
\* control character in it.
RequestTrees == {<<PlainParagraph>>, <<BadParagraph>>}

\* The branding of a request: none, a dictionary (empty, valid, or with a
\* colour that is no colour), a text that is no JSON, a file that is missing.
BrandingDicts ==
    {EmptyDict,
     [title |-> <<"Report">>],
     [link_color |-> Str(<<"F", "F">>)]}

ApiBrandings == {None} \cup {[t |-> "dict", d |-> d] : d \in BrandingDicts}

FileBrandings == ApiBrandings \cup {[t |-> "bad_json"]}

CliBrandings == FileBrandings \cup {[t |-> "missing"]}

NewRequest(endpoint, size, tree, b, name) ==
    [endpoint |-> endpoint, size |-> size, utf8 |-> TRUE, tree |-> tree,
     branding |-> b, filename |-> name, input_exists |-> TRUE,
     ast_only |-> FALSE, existing |-> "absent"]

ParseRequests ==
    {NewRequest("/parse", size, tree, None, None) :
         size \in SizeSamples, tree \in RequestTrees}

ConvertRequests ==
    {NewRequest("/convert", size, tree, b, Str(<<"a", ".md">>)) :
         size \in SizeSamples, tree \in RequestTrees, b \in ApiBrandings}
    \cup {NewRequest("/convert", 1, <<PlainParagraph>>, None, name) :
              name \in {None} \cup {Str(n) : n \in Names}}

FileRequests ==
    {[NewRequest("/convert/file", size, tree, b, Str(<<"a", ".md">>))
         EXCEPT !.utf8 = utf8] :
         size \in SizeSamples, tree \in RequestTrees, b \in FileBrandings,
         utf8 \in BOOLEAN}
    \cup {NewRequest("/convert/file", size, <<PlainParagraph>>, None, name) :
              size \in SizeSamples, name \in {None} \cup {Str(n) : n \in Names}}

CliRequests ==
    {[NewRequest("cli", 1, tree, b, Str(<<"a", ".md">>))
         EXCEPT !.input_exists = input_exists, !.ast_only = ast_only,
                !.existing = existing] :
         tree \in RequestTrees, b \in CliBrandings, input_exists \in BOOLEAN,
         ast_only \in BOOLEAN, existing \in {"absent", "old"}}

Requests == ParseRequests \cup ConvertRequests \cup FileRequests \cup CliRequests

(***************************************************************************)
(* The handlers, and document.save as python-docx does it: the file is     *)
(* opened for writing, the parts are written one by one, and the directory *)
(* of the archive is written on close.                                     *)
(***************************************************************************)
ServiceInit ==
    /\ request \in Requests
    /\ pc = "received"
    /\ calls = <<>>
    /\ response = None
    /\ target = [state |-> request.existing, parts |-> 0]

\* The handler of an endpoint has answered.
Answer(r) ==
    /\ calls' = r.calls
    /\ response' = r.response
    /\ pc' = "done"
    /\ UNCHANGED <<request, target>>

ParseMarkdown ==
    /\ pc = "received" /\ request.endpoint = "/parse"
    /\ Answer(ParseResult(request))

ConvertMarkdown ==
    /\ pc = "received" /\ request.endpoint = "/convert"
    /\ Answer(ConvertResult(request))

ConvertMarkdownFile ==
    /\ pc = "received" /\ request.endpoint = "/convert/file"
    /\ Answer(ConvertFileResult(request))

\* main: it returns, or has called generator.save(document, output_path)
Main ==
    /\ pc = "received" /\ request.endpoint = "cli"
    /\ calls' = MainResult(request).calls
    /\ response' = MainResult(request).response
    /\ pc' = IF MainResult(request).response = None THEN "saving" ELSE "done"
    /\ UNCHANGED <<request, target>>

\* save: the file at the path is opened for writing, which empties it, or
\* cannot be opened.
SaveOpens ==
    /\ pc = "saving"
    /\ \E opened \in BOOLEAN :
           IF opened
           THEN /\ target' = [state |-> "partial", parts |-> 0]
                /\ pc' = "writing"
                /\ UNCHANGED response
           ELSE /\ response' = Respond(1, "Error generating Word document")
                /\ pc' = "done"
                /\ UNCHANGED target
    /\ UNCHANGED <<request, calls>>

\* save: one more part is written
SaveWrites ==
    /\ pc = "writing" /\ target.parts < PackageParts
    /\ target' = [target EXCEPT !.parts = @ + 1]
    /\ UNCHANGED <<request, pc, calls, response>>

\* save: the archive is closed; main prints "Created" and returns 0
SaveCloses ==
    /\ pc = "writing" /\ target.parts = PackageParts
    /\ target' = [target EXCEPT !.state = "complete"]
    /\ response' = Respond(0, "Created")
    /\ pc' = "done"
    /\ UNCHANGED <<request, calls>>

\* save: a write fails (the disk is full, the file system is gone); the
\* exception reaches main, which prints it and returns 1
SaveFails ==
    /\ pc = "writing"
    /\ response' = Respond(1, "Error generating Word document")
    /\ pc' = "done"
    /\ UNCHANGED <<request, calls, target>>

InitService == ServiceInit /\ ColorIdle /\ BrandIdle /\ ObjIdle /\ GenIdle /\ ImageIdle /\ TextIdle /\ PairIdle /\ BytesIdle

NextService ==
    \/ ParseMarkdown /\ UNCHANGED <<colorVars, brandVars, objVars, genVars, imgVars, textVars, pairVars, bytesVars>>
    \/ ConvertMarkdown /\ UNCHANGED <<colorVars, brandVars, objVars, genVars, imgVars, textVars, pairVars, bytesVars>>
    \/ ConvertMarkdownFile /\ UNCHANGED <<colorVars, brandVars, objVars, genVars, imgVars, textVars, pairVars, bytesVars>>
    \/ Main /\ UNCHANGED <<colorVars, brandVars, objVars, genVars, imgVars, textVars, pairVars, bytesVars>>
    \/ SaveOpens /\ UNCHANGED <<colorVars, brandVars, objVars, genVars, imgVars, textVars, pairVars, bytesVars>>
    \/ SaveWrites /\ UNCHANGED <<colorVars, brandVars, objVars, genVars, imgVars, textVars, pairVars, bytesVars>>
    \/ SaveCloses /\ UNCHANGED <<colorVars, brandVars, objVars, genVars, imgVars, textVars, pairVars, bytesVars>>
    \/ SaveFails /\ UNCHANGED <<colorVars, brandVars, objVars, genVars, imgVars, textVars, pairVars, bytesVars>>

SpecService == InitService /\ [][NextService]_vars

(***************************************************************************)
(* parser.py, get_node_text, called on its own.  The nodes are those the   *)
(* parser makes (a leaf holds raw text or nothing, a wrapper holds         *)
(* children) and nodes that lack keys.                                     *)
(***************************************************************************)
\* The most children of a wrapper.
MaxChildren == 2

TextLeaves ==
    {TextNode(<<"a">>), TextNode(<<" ", "b">>),
     [type |-> "codespan", raw |-> <<"c">>],
     [type |-> "softbreak"]}

Wrappers == {"strong", "emphasis", "strikethrough", "link", "paragraph"}

\* A node of the type over the children; a link has its target as well.
Wrap(type, children) ==
    IF type = "link"
    THEN [type |-> type, link |-> <<"u">>, children |-> children]
    ELSE InlineNode(type, children)

LeafSeqs == UNION {[1..n -> TextLeaves] : n \in 0..MaxChildren}

\* Wrappers of leaves.
InnerNodes == {Wrap(type, children) : type \in Wrappers, children \in LeafSeqs}

\* Wrappers of a wrapper and a leaf, in both orders.
OuterNodes ==
    {Wrap(type, <<inner, leaf>>) :
         type \in Wrappers, inner \in InnerNodes, leaf \in TextLeaves}
    \cup {Wrap(type, <<leaf, inner>>) :
              type \in Wrappers, inner \in InnerNodes, leaf \in TextLeaves}

\* Nodes without keys: no raw, no children, no type, nothing at all.
BareNodes ==
    {[type |-> "text"], [type |-> "strong"], [raw |-> <<"a">>],
     [children |-> <<TextNode(<<"a">>), [type |-> "text"]>>], EmptyDict}

TextNodes == TextLeaves \cup InnerNodes \cup OuterNodes \cup BareNodes

TextInit ==
    /\ textNode \in TextNodes
    /\ textOut = NotCalled

\* MarkdownParser.get_node_text(node)
CallGetNodeText ==
    /\ textOut.st = "none"
    /\ textOut' = Ok(Str(GetNodeText(textNode)))
    /\ UNCHANGED textNode

InitText == TextInit /\ ColorIdle /\ BrandIdle /\ ObjIdle /\ GenIdle /\ ImageIdle /\ ServiceIdle /\ PairIdle /\ BytesIdle

NextText == CallGetNodeText /\ UNCHANGED <<colorVars, brandVars, objVars, genVars, imgVars, svcVars, pairVars, bytesVars>>

SpecText == InitText /\ [][NextText]_vars

(***************************************************************************)
(* Two conversions at a time (api.py, convert_markdown in two threads or   *)
(* tasks).  Each constructs its own WordGenerator and calls generate once. *)
(* The generator variables are those of the conversion that is scheduled,  *)
(* other holds the generator of the one that waits; the scheduler may      *)
(* switch between any two steps.                                           *)
(***************************************************************************)
\* The nesting of the lists the two conversions render.
PairDepth == 3

PairAsts ==
    {<<ListChain([i \in 1..PairDepth |-> i % 2 = 0], PlainParagraph, 0)>>,
     <<PlainParagraph, ListChain(<<FALSE, FALSE>>, BadParagraph, 0)>>,
     <<OddList, HeadingNode(1, <<TextNode(<<"h">>)>>)>>,
     <<PlainParagraph>>}

\* The fields of a generator.
Generator(b, tree, doc, lvl, frames, st) ==
    [branding |-> b, ast |-> tree, document |-> doc, list_level |-> lvl,
     stack |-> frames, status |-> st]

\* The generator of the scheduled conversion.
Scheduled == Generator(branding, ast, document, list_level, stack, status)

\* A mistaken generator: _list_level as one attribute for all generators,
\* so that a conversion goes on with the value the other one left.
SharedListLevel(own, current) == current

\* self._list_level is set in __init__: an attribute of the instance, so a
\* conversion goes on with its own value.
OwnListLevel(own, current) == own

PairInit ==
    /\ GenInit
    /\ \E b \in GenBrandings : other = Generator(b, <<>>, None, 0, <<>>, "idle")

\* generator = WordGenerator(branding); generator.generate(...)
StartConversion(tree) ==
    /\ status = "idle"
    /\ Generate(tree)

\* The scheduler takes the conversion that waits.
Switch ==
    /\ other' = [Scheduled EXCEPT
                    !.list_level = OwnListLevel(list_level, other.list_level)]
    /\ branding' = other.branding
    /\ ast' = other.ast
    /\ document' = other.document
    /\ list_level' = OwnListLevel(other.list_level, list_level)
    /\ stack' = other.stack
    /\ status' = other.status

InitPair == PairInit /\ ColorIdle /\ BrandIdle /\ ObjIdle /\ ImageIdle /\ ServiceIdle /\ TextIdle /\ BytesIdle

NextPair ==
    \/ \E tree \in PairAsts : StartConversion(tree) /\ UNCHANGED <<colorVars, brandVars, objVars, imgVars, svcVars, textVars, pairVars, bytesVars>>
    \/ ProcessNode /\ UNCHANGED <<colorVars, brandVars, objVars, imgVars, svcVars, textVars, pairVars, bytesVars>>
    \/ ProcessList /\ UNCHANGED <<colorVars, brandVars, objVars, imgVars, svcVars, textVars, pairVars, bytesVars>>
    \/ HandleListItem /\ UNCHANGED <<colorVars, brandVars, objVars, imgVars, svcVars, textVars, pairVars, bytesVars>>
    \/ SkipListChild /\ UNCHANGED <<colorVars, brandVars, objVars, imgVars, svcVars, textVars, pairVars, bytesVars>>
    \/ ReturnFromList /\ UNCHANGED <<colorVars, brandVars, objVars, imgVars, svcVars, textVars, pairVars, bytesVars>>
    \/ ListItemParagraph /\ UNCHANGED <<colorVars, brandVars, objVars, imgVars, svcVars, textVars, pairVars, bytesVars>>
    \/ ListItemNestedList /\ UNCHANGED <<colorVars, brandVars, objVars, imgVars, svcVars, textVars, pairVars, bytesVars>>
    \/ SkipItemChild /\ UNCHANGED <<colorVars, brandVars, objVars, imgVars, svcVars, textVars, pairVars, bytesVars>>
    \/ ReturnFromListItem /\ UNCHANGED <<colorVars, brandVars, objVars, imgVars, svcVars, textVars, pairVars, bytesVars>>
    \/ ReturnDocument /\ UNCHANGED <<colorVars, brandVars, objVars, imgVars, svcVars, textVars, pairVars, bytesVars>>
    \/ Switch /\ UNCHANGED <<colorVars, brandVars, objVars, imgVars, svcVars, textVars, bytesVars>>

SpecPair == InitPair /\ [][NextPair]_vars

(***************************************************************************)
(* generator.py, generate with the header or the footer configured: every  *)
(* combination of zone texts, page number and logo, on a short tree.       *)
(***************************************************************************)
ZoneNames == {"left", "center", "right"}

ZoneConfigs ==
    {[HeaderFooterConfig EXCEPT
         !.left_text = l, !.text = c, !.right_text = r,
         !.include_page_number = n, !.page_number_position = p,
         !.logo_path = g[1], !.logo_position = g[2]] :
     l \in {<<>>, <<"L">>}, c \in {<<>>, <<"C">>}, r \in {<<>>, <<"R">>},
     n \in BOOLEAN, p \in ZoneNames,
     g \in {<<(<<>>), "left">>} \cup ({<<"logo.png">>} \X ZoneNames)}

ZoneBrandings ==
    {[BrandingConfig EXCEPT !.header = c] : c \in ZoneConfigs}
    \cup {[BrandingConfig EXCEPT !.footer = c] : c \in ZoneConfigs}

ZoneAsts == {<<>>, <<PlainParagraph>>}

ZonesInit ==
    /\ branding \in ZoneBrandings
    /\ ast = <<>>
    /\ document = None
    /\ list_level = 0
    /\ stack = <<>>
    /\ status = "idle"

InitZones == ZonesInit /\ ColorIdle /\ BrandIdle /\ ObjIdle /\ ImageIdle /\ ServiceIdle /\ TextIdle /\ PairIdle /\ BytesIdle

NextZones ==
    \/ \E tree \in ZoneAsts : StartConversion(tree) /\ UNCHANGED <<colorVars, brandVars, objVars, imgVars, svcVars, textVars, pairVars, bytesVars>>
    \/ ProcessNode /\ UNCHANGED <<colorVars, brandVars, objVars, imgVars, svcVars, textVars, pairVars, bytesVars>>
    \/ ReturnDocument /\ UNCHANGED <<colorVars, brandVars, objVars, imgVars, svcVars, textVars, pairVars, bytesVars>>

SpecZones == InitZones /\ [][NextZones]_vars

(***************************************************************************)
(* generator.py, to_bytes: document.save(buffer) writes the parts of the   *)
(* package as the members of a zip archive; zipfile stamps every member    *)
(* with the time of the system clock.  Conversions follow one another,     *)
(* each on a generator of its own, and to_bytes is called any number of    *)
(* times on the document a conversion returned.                            *)
(***************************************************************************)
\* The most to_bytes calls, the most generators, the latest time.
MaxOutputs == 2

MaxGenerators == 2

MaxClock == 1

\* A member of the archive.
Member(name, blob, now) == [name |-> name, data |-> blob, date_time |-> now]

\* A serializer that writes the time of the call into the core properties.
SerializeStamped(doc, now) ==
    <<Member("docProps/core.xml", [core |-> doc.core, modified |-> now], now),
      Member("word/document.xml",
             [body |-> doc.body, section |-> doc.section,
              header |-> ~doc.header.linked, footer |-> ~doc.footer.linked], now),
      Member("word/styles.xml", [normal |-> doc.normal], now)>>
    \o (IF doc.header.linked THEN <<>>
        ELSE <<Member("word/header1.xml", doc.header, now)>>)
    \o (IF doc.footer.linked THEN <<>>
        ELSE <<Member("word/footer1.xml", doc.footer, now)>>)

\* document.save(buffer); buffer.read(): the parts of the package in the
\* order they are written, the header and footer parts only when defined.
Serialize(doc, now) ==
    <<Member("docProps/core.xml", [core |-> doc.core], now),
      Member("word/document.xml",
             [body |-> doc.body, section |-> doc.section,
              header |-> ~doc.header.linked, footer |-> ~doc.footer.linked], now),
      Member("word/styles.xml", [normal |-> doc.normal], now)>>
    \o (IF doc.header.linked THEN <<>>
        ELSE <<Member("word/header1.xml", doc.header, now)>>)
    \o (IF doc.footer.linked THEN <<>>
        ELSE <<Member("word/footer1.xml", doc.footer, now)>>)

\* Brandings without a logo: what the document holds does not depend on
\* files or hosts.
ByteBrandings ==
    {BrandingConfig,
     [BrandingConfig EXCEPT !.title = <<"T">>, !.header.left_text = <<"L">>,
                            !.heading1.font_name = "Arial"]}

ByteAsts ==
    {<<PlainParagraph>>, <<RichParagraph, HeadingNode(1, <<TextNode(<<"h">>)>>)>>}

BytesInit ==
    /\ branding \in ByteBrandings
    /\ ast = <<>>
    /\ document = None
    /\ list_level = 0
    /\ stack = <<>>
    /\ status = "idle"
    /\ clock = 0
    /\ generators = 1
    /\ outputs = <<>>

\* generator.to_bytes(document)
ToBytes ==
    /\ status = "returned"
    /\ Len(outputs) < MaxOutputs
    /\ outputs' = Append(outputs, [generator |-> generators, ast |-> ast,
                                   document |-> document,
                                   bytes |-> Serialize(document, clock)])
    /\ UNCHANGED <<genVars, clock, generators>>

\* Time passes.
Tick ==
    /\ clock < MaxClock
    /\ clock' = clock + 1
    /\ UNCHANGED <<genVars, generators, outputs>>

\* The next conversion: generator = WordGenerator(branding)
Construct ==
    /\ status \in {"returned", "raised"}
    /\ generators < MaxGenerators
    /\ generators' = generators + 1
    /\ ast' = <<>>
    /\ document' = None
    /\ list_level' = 0
    /\ stack' = <<>>
    /\ status' = "idle"
    /\ UNCHANGED <<branding, clock, outputs>>

InitBytes == BytesInit /\ ColorIdle /\ BrandIdle /\ ObjIdle /\ ImageIdle /\ ServiceIdle /\ TextIdle /\ PairIdle

NextBytes ==
    \/ \E tree \in ByteAsts : StartConversion(tree) /\ UNCHANGED <<colorVars, brandVars, objVars, imgVars, svcVars, textVars, pairVars, bytesVars>>
    \/ ProcessNode /\ UNCHANGED <<colorVars, brandVars, objVars, imgVars, svcVars, textVars, pairVars, bytesVars>>
    \/ ReturnDocument /\ UNCHANGED <<colorVars, brandVars, objVars, imgVars, svcVars, textVars, pairVars, bytesVars>>
    \/ ToBytes /\ UNCHANGED <<colorVars, brandVars, objVars, imgVars, svcVars, textVars, pairVars>>
    \/ Tick /\ UNCHANGED <<colorVars, brandVars, objVars, imgVars, svcVars, textVars, pairVars>>
    \/ Construct /\ UNCHANGED <<colorVars, brandVars, objVars, imgVars, svcVars, textVars, pairVars>>

SpecBytes == InitBytes /\ [][NextBytes]_vars

(***************************************************************************)
(* C3: _parse_color(s) succeeds exactly when s, after one optional leading *)
(* '#', is six hexadecimal digits, and then returns the triple they        *)
(* encode; every other string raises.                                      *)
(***************************************************************************)
StripOneHash(s) == IF s # <<>> /\ Head(s) = "#" THEN Tail(s) ELSE s

IsSixHex(s) == Len(s) = 6 /\ AllHex(s)

ColorTriple(s) ==
    <<HexNumber(SubSeq(s, 1, 2)), HexNumber(SubSeq(s, 3, 4)), HexNumber(SubSeq(s, 5, 6))>>

C3_ParseColorIffSixHex ==
    colorOut.st # "none" =>
        LET s == StripOneHash(colorIn)
        IN /\ (colorOut.st = "ok") <=> IsSixHex(s)
           /\ colorOut.st = "ok" => colorOut.v = [t |-> "rgb", rgb |-> ColorTriple(s)]

(***************************************************************************)
(* C1: from_dict leaves every field that the overrides do not name at its  *)
(* BrandingConfig default, also inside a nested record of which the        *)
(* overrides name only some fields.                                        *)
(***************************************************************************)
NestedRecords ==
    {"body_font", "heading1", "heading2", "heading3", "heading4", "heading5",
     "heading6", "code_font", "header", "footer"}

PageFields ==
    [width |-> "page_width", height |-> "page_height", margin_top |-> "margin_top",
     margin_bottom |-> "margin_bottom", margin_left |-> "margin_left",
     margin_right |-> "margin_right"]

TopFields ==
    {"title", "author", "company", "code_background_color", "link_color",
     "link_underline"}

C1_AbsentFieldsKeepDefaults ==
    cfg.st = "ok" =>
        /\ \A k \in TopFields : ~Has(data, k) => cfg.v[k] = BrandingConfig[k]
        /\ cfg.v.list_indent = BrandingConfig.list_indent
        /\ \A k \in DOMAIN PageFields :
               ~(Has(data, "page") /\ Has(data.page, k))
                   => cfg.v[PageFields[k]] = BrandingConfig[PageFields[k]]
        /\ \A r \in NestedRecords : \A f \in DOMAIN BrandingConfig[r] :
               ~(Has(data, r) /\ Has(data[r], f))
                   => cfg.v[r][f] = BrandingConfig[r][f]

(***************************************************************************)
(* C2 as stated: get_heading_config returns the level-1 record for a level *)
(* below 1, the level-6 record for a level above 6, and the record of the  *)
(* level for 1..6.                                                         *)
(***************************************************************************)
HeadingRecords(config) ==
    <<config.heading1, config.heading2, config.heading3,
      config.heading4, config.heading5, config.heading6>>

IsColor(c) ==
    \/ c.t = "none"
    \/ c.t = "rgb" /\ \A i \in 1..3 : c.rgb[i] \in 0..255

ConfiguredColors(config) ==
    {config.body_font.color, config.code_font.color, config.code_background_color,
     config.link_color, config.header.color, config.footer.color}
    \cup {HeadingRecords(config)[i].color : i \in 1..6}

C4_StoredColorsAreRgb ==
    cfg.st = "ok" => \A c \in ConfiguredColors(cfg.v) : IsColor(c)

(***************************************************************************)
(* C5: every configuration from_dict returns has strictly positive page    *)
(* size, margins, font sizes and heading spacing; a zero or negative one   *)
(* in the overrides makes from_dict fail.                                  *)
(***************************************************************************)
ConfiguredLengths(config) ==
    {config.page_width, config.page_height, config.margin_top, config.margin_bottom,
     config.margin_left, config.margin_right, config.body_font.size,
     config.code_font.size, config.header.font_size, config.footer.font_size}
    \cup {HeadingRecords(config)[i].font_size : i \in 1..6}
    \cup {HeadingRecords(config)[i].space_before : i \in 1..6}
    \cup {HeadingRecords(config)[i].space_after : i \in 1..6}

C5_LengthsArePositive ==
    cfg.st = "ok" => \A x \in ConfiguredLengths(cfg.v) : x > 0

(***************************************************************************)
(* C6: calls of from_dict with the same dictionary return field-by-field   *)
(* equal configurations, whatever the caller did to an earlier result, and *)
(* no mutable object of one result belongs to another.                     *)
(***************************************************************************)
C6_CallsAgreeAndShareNothing ==
    /\ \A i, j \in DOMAIN returned : returned[i] = returned[j]
    /\ \A i, j \in DOMAIN results :
           i # j /\ results[i].st = "ok" /\ results[j].st = "ok"
               => ObjectsOf(results[i].v) \cap ObjectsOf(results[j].v) = {}

(***************************************************************************)
(* The vocabulary of the properties of the emitter.                        *)
(***************************************************************************)
\* The top-level node i has been handled and its handler has returned.
Processed(i) ==
    \/ status = "returned"
    \/ status \in {"running", "raised"} /\ stack[1].idx > i

\* The exception that ended the call was raised while the top-level node i
\* was handled.
RaisedAt(i) == status = "raised" /\ stack[1].idx = i

\* The elements of the body emitted for the top-level node i.
ElementsOf(i) ==
    LET FromNode(e) == e.src[1] = i
    IN  SelectSeq(document.body, FromNode)

\* The depth-first, left-to-right concatenation of the raw text of the
\* leaves of a node.
RECURSIVE FlatText(_), FlatTexts(_)
FlatText(node) ==
    IF Children(node) = <<>> THEN Get(node, "raw", <<>>)
    ELSE FlatTexts(Children(node))

FlatTexts(nodes) ==
    IF nodes = <<>> THEN <<>>
    ELSE FlatText(Head(nodes)) \o FlatTexts(Tail(nodes))

HasHead(node) == \E k \in DOMAIN Children(node) :
                     NodeType(Children(node)[k]) = "table_head"

\* The header cells of a table node.
HeadCells(node) ==
    Children(Children(node)[CHOOSE k \in DOMAIN Children(node) :
                                NodeType(Children(node)[k]) = "table_head"])

\* The body rows of a table node.
BodyRows(node) ==
    IF \E k \in DOMAIN Children(node) : NodeType(Children(node)[k]) = "table_body"
    THEN Children(Children(node)[CHOOSE k \in DOMAIN Children(node) :
                                     NodeType(Children(node)[k]) = "table_body"])
    ELSE <<>>

HeadedTable(node) ==
    NodeType(node) = "table" /\ HasHead(node) /\ HeadCells(node) # <<>>

HeadlessTable(node) == NodeType(node) = "table" /\ ~HasHead(node)

\* The table element has the shape and the texts of the table node.
TableMatches(table, node) ==
    /\ table.cols = Len(HeadCells(node))
    /\ Len(table.rows) = 1 + Len(BodyRows(node))
    /\ \A r \in DOMAIN table.rows : Len(table.rows[r]) = Len(HeadCells(node))
    /\ \A c \in 1..Len(HeadCells(node)) :
           table.rows[1][c].text = FlatText(HeadCells(node)[c])
    /\ \A r \in DOMAIN BodyRows(node) : \A c \in 1..Len(HeadCells(node)) :
           IF c <= Len(Children(BodyRows(node)[r]))
           THEN table.rows[r + 1][c].text = FlatText(Children(BodyRows(node)[r])[c])
           ELSE table.rows[r + 1][c].text = <<>> /\ table.rows[r + 1][c].runs = 0

(***************************************************************************)
(* C7: for a table node with a header of n >= 1 cells, _handle_table emits *)
(* exactly one table, of n columns and 1 + (number of body rows) rows; the *)
(* columns a body row has no cell for are empty, the cells of a body row   *)
(* at index >= n are dropped without error, and every other cell holds the *)
(* flattened text of its node.                                             *)
(***************************************************************************)
C7_TableShape ==
    \A i \in DOMAIN ast :
        HeadedTable(ast[i]) =>
            /\ ~RaisedAt(i)
            /\ Processed(i) =>
                   /\ Cardinality({k \in DOMAIN ElementsOf(i) :
                                      ElementsOf(i)[k].kind = "table"}) = 1
                   /\ \A k \in DOMAIN ElementsOf(i) :
                          ElementsOf(i)[k].kind = "table" =>
                              TableMatches(ElementsOf(i)[k], ast[i])

\* generate has returned the document of a tree with a table of 3 header
\* cells and body rows of 2 and of 4 cells.
C7_Witness ==
    /\ status = "returned"
    /\ \E i \in DOMAIN ast :
           /\ HeadedTable(ast[i])
           /\ Len(HeadCells(ast[i])) = 3
           /\ \E r \in DOMAIN BodyRows(ast[i]) : Len(Children(BodyRows(ast[i])[r])) = 2
           /\ \E r \in DOMAIN BodyRows(ast[i]) : Len(Children(BodyRows(ast[i])[r])) = 4
           /\ \E k \in DOMAIN document.body : document.body[k].kind = "table"

(***************************************************************************)
(* C8: for a table node without a table_head child, whatever body rows it  *)
(* has, _handle_table emits no table and no other element (no spacing      *)
(* paragraph) and does not raise; the nodes before and after it have the   *)
(* elements their handlers emit for them.                                  *)
(***************************************************************************)
C8_HeadlessTableEmitsNothing ==
    \A i \in DOMAIN ast :
        HeadlessTable(ast[i]) /\ status # "idle" =>
            /\ ElementsOf(i) = <<>>
            /\ ~RaisedAt(i)
            /\ \A j \in DOMAIN ast :
                   j # i /\ Processed(j) /\ NodeType(ast[j]) # "list" =>
                       ElementsOf(j) = HandleBlock(ast[j], <<j>>, branding).elems

\* generate has returned the document of a tree whose table has body rows
\* and no head; the document holds the elements of the nodes around it.
C8_Witness ==
    /\ status = "returned"
    /\ \E i \in DOMAIN ast :
           /\ HeadlessTable(ast[i])
           /\ BodyRows(ast[i]) # <<>>
           /\ i > 1 /\ i < Len(ast)
           /\ ElementsOf(i - 1) # <<>> /\ ElementsOf(i + 1) # <<>>

(***************************************************************************)
(* C9: for a list item that holds a paragraph followed by a nested list,   *)
(* the entry of the paragraph comes first, at the depth d of the item's    *)
(* list and with that list's kind; the entries of the nested list follow   *)
(* at depth d + 1 with the nested list's kind, and with a greater indent   *)
(* (explicit, or implied by the style).                                    *)
(***************************************************************************)
\* The list styles of the default template, by depth.
StyledDepths == 0..2

IsEntry(e) ==
    e.kind = "paragraph"
    /\ e.style \in {ListStyleName(o, d) : o \in BOOLEAN, d \in StyledDepths}

\* The left indent the numbering of the default template gives the list
\* styles: a quarter inch per level.
StyleIndent(style) ==
    (HalfInches(1) \div 2)
    * (1 + CHOOSE d \in StyledDepths :
               style \in {ListStyleName(TRUE, d), ListStyleName(FALSE, d)})

EntryIndent(e) ==
    IF e.left_indent = {} THEN StyleIndent(e.style)
    ELSE CHOOSE x \in e.left_indent : TRUE

\* The depth an entry is shown at: that of its style, or the one its
\* explicit indent of (depth + 1) half inches stands for.
EntryDepth(e) ==
    IF e.left_indent = {}
    THEN CHOOSE d \in StyledDepths :
             e.style \in {ListStyleName(TRUE, d), ListStyleName(FALSE, d)}
    ELSE (EntryIndent(e) \div HalfInches(1)) - 1

EntryOrdered(e) == e.style \in {ListStyleName(TRUE, d) : d \in StyledDepths}

\* The list a paragraph of a list item belongs to, and the number of lists
\* around that list.
ListOf(src) == NodeAt(SubSeq(src, 1, Len(src) - 2))

ListDepth(src) == (Len(src) - 3) \div 2

\* inner is the path of a paragraph of an item of a list nested in the
\* item of the paragraph at path outer, after that paragraph.
NestedAfter(outer, inner) ==
    /\ Len(inner) = Len(outer) + 2
    /\ SubSeq(inner, 1, Len(outer) - 1) = SubSeq(outer, 1, Len(outer) - 1)
    /\ inner[Len(outer)] > outer[Len(outer)]

EntryMatchesList(e) ==
    /\ EntryDepth(e) = ListDepth(e.src)
    /\ EntryOrdered(e) = Get(Attrs(ListOf(e.src)), "ordered", FALSE)

C9_NestedListEntries ==
    status # "idle" =>
        \A k1, k2 \in DOMAIN document.body :
            /\ IsEntry(document.body[k1]) /\ IsEntry(document.body[k2])
            /\ NestedAfter(document.body[k1].src, document.body[k2].src)
            => /\ k1 < k2
               /\ EntryMatchesList(document.body[k1])
               /\ EntryMatchesList(document.body[k2])
               /\ EntryIndent(document.body[k2]) > EntryIndent(document.body[k1])

(***************************************************************************)
(* C10: whatever generate calls came before, also calls that raised inside *)
(* a nested list, the list level is 0 when the traversal of a top-level    *)
(* list starts, is the number of enclosing lists minus one while the       *)
(* paragraphs of an item are emitted, and is on return from a nested list  *)
(* what it was before the nested list was entered.                         *)
(***************************************************************************)
C10_ListLevelIsNestingDepth ==
    status = "running" =>
        /\ Top.fn = "_handle_list" => list_level = (Len(Top.path) - 1) \div 2
        /\ Top.fn = "_handle_list_item" => list_level = (Len(Top.path) - 2) \div 2

(***************************************************************************)
(* C11: a top-level node whose type is missing or is none of heading,      *)
(* paragraph, list, block_code, block_quote, thematic_break, table and     *)
(* newline gets no element and raises nothing, and the document generate   *)
(* returns holds the elements of the tree without that node.               *)
(***************************************************************************)
HandledTypes ==
    {"heading", "paragraph", "list", "block_code", "block_quote",
     "thematic_break", "table", "newline"}

Unhandled(node) == NodeType(node) \notin HandledTypes

\* The nodes without the one at position i.
WithoutNode(nodes, i) ==
    SubSeq(nodes, 1, i - 1) \o SubSeq(nodes, i + 1, Len(nodes))

\* The elements, apart from the path of the node they were emitted for.
Unsourced(elems) == [k \in DOMAIN elems |-> [elems[k] EXCEPT !.src = <<>>]]

\* The elements the handlers emit for nodes that are no lists, one after
\* the other.
RECURSIVE BlockElems(_, _)
BlockElems(nodes, b) ==
    IF nodes = <<>> THEN <<>>
    ELSE Unsourced(HandleBlock(Head(nodes), <<1>>, b).elems)
         \o BlockElems(Tail(nodes), b)

NoLists(nodes) == \A k \in DOMAIN nodes : NodeType(nodes[k]) # "list"

C11_UnknownNodesAreSkipped ==
    \A i \in DOMAIN ast :
        Unhandled(ast[i]) /\ status # "idle" =>
            /\ ElementsOf(i) = <<>>
            /\ ~RaisedAt(i)
            /\ status = "returned" /\ NoLists(ast) =>
                   Unsourced(document.body)
                       = BlockElems(WithoutNode(ast, i), branding)

\* generate has returned the document of a tree with a node of a type
\* without a handler between two nodes that have elements.
C11_Witness ==
    /\ status = "returned"
    /\ \E i \in DOMAIN ast :
           /\ Unhandled(ast[i])
           /\ "type" \in DOMAIN ast[i]
           /\ i > 1 /\ i < Len(ast)
           /\ ElementsOf(i - 1) # <<>> /\ ElementsOf(i + 1) # <<>>

(***************************************************************************)
(* C12: when no picture was inserted for the logo of a header or footer,   *)
(* generate still returns, and the header or footer paragraph holds what   *)
(* it holds with no logo configured: the runs of the three zones and the   *)
(* two tabs between them (and the page number field of a footer).          *)
(***************************************************************************)
HasPicture(runs) == \E k \in DOMAIN runs : runs[k].kind = "picture"

\* The paragraph _build_header_footer_content makes when no logo is
\* configured.
WithoutLogo(config, is_header) ==
    BuildHeaderFooterContent([config EXCEPT !.logo_path = <<>>], is_header, "none")

C12_FailedLogoLeavesZonesOnly ==
    status = "returned" =>
        /\ HasHeader(branding.header) /\ ~HasPicture(document.header.runs) =>
               document.header.runs = WithoutLogo(branding.header, TRUE)
        /\ HasFooter(branding.footer) /\ ~HasPicture(document.footer.runs) =>
               document.footer.runs = WithoutLogo(branding.footer, FALSE)

(***************************************************************************)
(* C13: load_image requests a URL only when the host of the reference is   *)
(* in the list the allowlist provider returns at that call; when that list *)
(* is empty, as it is by default, every http:// or https:// reference      *)
(* raises with no request made; an empty reference always raises.          *)
(***************************************************************************)
C13_NoDownloadOutsideAllowlist ==
    /\ image.requested # <<>> =>
           /\ image.requested = <<image.ref>>
           /\ IsUrl(image.ref)
           /\ Hostname(image.ref) \in image.allowed
    /\ image.pc # "idle" /\ IsUrl(image.ref) /\ image.allowed = {} =>
           image.pc = "raised" /\ image.requested = <<>>
    /\ image.pc # "idle" /\ image.ref = <<>> =>
           image.pc = "raised" /\ image.requested = <<>>

\* load_image has raised, with no request made, for a URL with a host that
\* is not in the list of hosts that the provider returned.
C13_Witness ==
    /\ image.pc = "raised" /\ image.requested = <<>>
    /\ IsUrl(image.ref)
    /\ Hostname(image.ref) = <<"b.com">>
    /\ image.allowed = {<<"a.com">>}

(***************************************************************************)
(* C14: on /parse, /convert and /convert/file a request whose Markdown     *)
(* text is larger than MAX_MARKDOWN_SIZE bytes is answered 413 and neither *)
(* the parser nor the generator is called for it; a text of exactly        *)
(* MAX_MARKDOWN_SIZE bytes is not refused for its size.                    *)
(***************************************************************************)
ApiEndpoints == {"/parse", "/convert", "/convert/file"}

Called(part) == \E k \in DOMAIN calls : calls[k] = part

\* The request names a file of an accepted type, as /convert/file asks
\* before it reads the content.
NamesMarkdown(req) ==
    req.endpoint = "/convert/file" =>
        req.filename # None /\ AllowedExtension(req.filename.s)

C14_OversizedIsRefusedBeforeWork ==
    pc = "done" /\ request.endpoint \in ApiEndpoints /\ NamesMarkdown(request) =>
        /\ request.size > MAX_MARKDOWN_SIZE =>
               /\ response.code = 413
               /\ ~Called("parse") /\ ~Called("generate")
        /\ request.size = MAX_MARKDOWN_SIZE => response.code # 413

(***************************************************************************)
(* C15: when the branding of a conversion is one from_dict raises for, the *)
(* caller gets the error and the conversion is neither parsed, generated   *)
(* nor serialized; in every entry point from_dict is called before the     *)
(* parser and the generator.                                               *)
(***************************************************************************)
InvalidBranding(req) ==
    req.branding.t = "dict" /\ FromDict(req.branding.d).st = "raised"

\* The request asks for a conversion of a text that can be read.
AsksConversion(req) ==
    req.endpoint # "/parse" /\ req.input_exists /\ ~req.ast_only

C15_BrandingResolvedBeforeParsing ==
    /\ pc = "done" /\ InvalidBranding(request) /\ AsksConversion(request) =>
           /\ response.code \notin {0, 200}
           /\ \A part \in {"parse", "generate", "to_bytes", "save"} : ~Called(part)
    /\ \A i, j \in DOMAIN calls :
           calls[i] = "from_dict" /\ calls[j] \in {"parse", "generate"} => i < j

(***************************************************************************)
(* C16: the file name of a download is never empty and holds no "/", no    *)
(* "\" and no control character; for a missing, empty or blank name of a   *)
(* /convert request it is "document.docx".                                 *)
(***************************************************************************)
ControlCharacters == {"\r", "\n", "\t", "^@"}

Blank(name) == \A k \in DOMAIN name : name[k] \in {" ", "\t", "\n", "\r"}

C16_DownloadNamesAreSafe ==
    pc = "done" /\ response.filename # None =>
        /\ response.filename.s # <<>>
        /\ \A k \in DOMAIN response.filename.s :
               response.filename.s[k] \notin {"/", "\\"} \cup ControlCharacters
        /\ request.endpoint = "/convert"
           /\ (request.filename = None \/ Blank(request.filename.s))
           => response.filename.s = DefaultFilename

(***************************************************************************)
(* C17: when save has been called, the file at the output path is a        *)
(* complete package or is what it was before the call, and when it is not  *)
(* a complete package the command has ended with an error.                 *)
(***************************************************************************)
C17_SaveLeavesNoPartialFile ==
    pc = "done" /\ Called("save") =>
        /\ \/ target.state = "complete"
           \/ target = [state |-> request.existing, parts |-> 0]
        /\ target.state # "complete" => response.code = 1

(***************************************************************************)
(* C18: however the steps of two conversions are interleaved, each one     *)
(* produces what it produces alone: at every moment the body of its        *)
(* document is the beginning of the body it renders alone, and when it has *)
(* ended it has the same body, the same setup and zones, and has raised or *)
(* returned as it does alone.  No conversion writes the allowed hosts      *)
(* provider or the environment that the other reads.                       *)
(***************************************************************************)
\* r, and then s unless r raised.
Then(r, s) == IF r.raised THEN r ELSE After(r.elems, s)

\* What a conversion on its own emits for the nodes from position k on,
\* for the children of a list and for the children of a list item.
RECURSIVE AloneNodes(_, _, _), AloneList(_, _, _, _, _), AloneItem(_, _, _, _, _, _)
AloneNodes(nodes, k, b) ==
    IF k > Len(nodes) THEN NoOutput
    ELSE Then(IF NodeType(nodes[k]) = "list"
              THEN AloneList(nodes[k], <<k>>, 1, 0, b)
              ELSE HandleBlock(nodes[k], <<k>>, b),
              AloneNodes(nodes, k + 1, b))

AloneList(list, path, k, lvl, b) ==
    IF k > Len(Children(list)) THEN NoOutput
    ELSE Then(IF NodeType(Children(list)[k]) = "list_item"
              THEN AloneItem(Children(list)[k], path \o <<k>>, 1,
                             Get(Attrs(list), "ordered", FALSE), lvl, b)
              ELSE NoOutput,
              AloneList(list, path, k + 1, lvl, b))

AloneItem(item, path, k, ordered, lvl, b) ==
    IF k > Len(Children(item)) THEN NoOutput
    ELSE Then(CASE NodeType(Children(item)[k]) \in {"paragraph", "block_text"} ->
                       HandleListParagraph(Children(item)[k], ordered, lvl,
                                           path \o <<k>>, b)
                [] NodeType(Children(item)[k]) = "list" ->
                       AloneList(Children(item)[k], path \o <<k>>, 1, lvl + 1, b)
                [] OTHER -> NoOutput,
              AloneItem(item, path, k + 1, ordered, lvl, b))

IsPrefix(s, t) == Len(s) <= Len(t) /\ s = SubSeq(t, 1, Len(s))

\* The generator g is where the conversion alone, with outcome r, can be.
AsAlone(g, r) ==
    CASE g.status = "idle" -> g.document = None
      [] g.status = "running" -> IsPrefix(g.document.body, r.elems)
      [] g.status = "raised" -> r.raised /\ g.document.body = r.elems
      [] OTHER ->
             /\ ~r.raised
             /\ \E header_logo \in LogoOutcomes(g.branding.header) :
                \E footer_logo \in LogoOutcomes(g.branding.footer) :
                    g.document =
                        AddHeadersFooters(
                            [SetupDocument(NewDocument, g.branding)
                                 EXCEPT !.body = r.elems],
                            g.branding, header_logo, footer_logo)

RECURSIVE Unstyled(_)
Unstyled(n) ==
    IF "children" \in DOMAIN n
    THEN [children |-> [k \in DOMAIN n.children |-> Unstyled(n.children[k])]]
    ELSE IF "raw" \in DOMAIN n THEN [raw |-> n.raw]
    ELSE EmptyDict

C19_TextIsLeavesInOrder ==
    textOut.st = "ok" =>
        /\ textOut.v.s = FlatText(textNode)
        /\ textOut.v.s = GetNodeText(Unstyled(textNode))
        /\ textNode = ParagraphNode(<<InlineNode("strong", <<TextNode(<<"a">>)>>),
                                      TextNode(<<" ", "b">>)>>)
           => textOut.v.s = <<"a", " ", "b">>
        /\ DOMAIN textNode \cap {"raw", "children"} = {} => textOut.v.s = <<>>

\* get_node_text was called on the paragraph of a strong "a" and a text " b".
C19_Witness ==
    /\ textOut.st = "ok"
    /\ textNode = ParagraphNode(<<InlineNode("strong", <<TextNode(<<"a">>)>>),
                                  TextNode(<<" ", "b">>)>>)

(***************************************************************************)
(* C20: generate, constructed with a validated configuration, completes    *)
(* without raising for every tree whose nodes may lack any of their keys   *)
(* (the values of the keys that are there being those the parser gives):   *)
(* such a node is rendered with the defaults or skipped, and no error of   *)
(* the emitter reaches the caller of the conversion.                       *)
(***************************************************************************)
\* The levels the parser gives a heading.
ParserLevels == 1..6

\* Every heading of the tree that has a level has one of the parser's.
ValidLevels(tree) ==
    \A i \in DOMAIN tree :
        NodeType(tree[i]) = "heading" /\ "level" \in DOMAIN Attrs(tree[i])
        => Attrs(tree[i]).level \in ParserLevels

C20_GenerateNeverRaises == ValidLevels(ast) => status # "raised"

(***************************************************************************)
(* C21: two conversions of the same tree under the same configuration      *)
(* return the same document; two to_bytes calls on the same document give  *)
(* the same bytes apart from the time stamps of the archive; and to_bytes  *)
(* leaves the document as generate returned it.                            *)
(***************************************************************************)
\* The bytes without the time stamps.
WithoutStamps(bytes) ==
    [k \in DOMAIN bytes |-> [name |-> bytes[k].name, data |-> bytes[k].data]]

Untouched(part, name) == part = NewDocument[name]

AnyZoneText(config) ==
    \E t \in {config.left_text, config.text, config.right_text} : t # <<>>

(***************************************************************************)
(* C22: the header is emitted exactly when one of its three texts is not   *)
(* empty, the footer exactly when one of its three texts is not empty or   *)
(* include_page_number is true; otherwise the header or footer of the      *)
(* section is untouched, also when a logo is configured, and the header's  *)
(* include_page_number does not make a header.                             *)
(***************************************************************************)
C22_EmittedIffContent ==
    status = "returned" =>
        /\ Untouched(document.header, "header") <=> ~AnyZoneText(branding.header)
        /\ Untouched(document.footer, "footer")
           <=> ~(AnyZoneText(branding.footer) \/ branding.footer.include_page_number)
        /\ ~Untouched(document.header, "header")
           => ~document.header.linked /\ document.header.runs # <<>>
        /\ ~Untouched(document.footer, "footer")
           => ~document.footer.linked /\ document.footer.runs # <<>>

\* generate has returned for a header with a logo and include_page_number
\* and no text: the header is untouched.
C22_Witness ==
    /\ status = "returned"
    /\ branding.header.logo_path # <<>> /\ branding.header.include_page_number
    /\ ~AnyZoneText(branding.header)
    /\ Untouched(document.header, "header")

(***************************************************************************)
(* C23: with the footer's include_page_number, the PAGE field is in the    *)
(* zone page_number_position selects (before the first tab for left,       *)
(* between the tabs for center, after the second tab for right), directly  *)
(* after the run that ends with that zone's label "Page "; the label       *)
(* follows text already in the zone after " - "; the other zones hold      *)
(* their own text only.  The header has no label and no field.             *)
(***************************************************************************)
IsTab(r) == r.kind = "run" /\ r.text = <<"\t">>

\* The number of tab runs before position k.
TabsBefore(runs, k) == Cardinality({j \in 1..(k - 1) : IsTab(runs[j])})

\* The zone a position of the paragraph lies in.
ZoneAt(runs, k) ==
    CASE TabsBefore(runs, k) = 0 -> "left"
      [] TabsBefore(runs, k) = 1 -> "center"
      [] OTHER -> "right"

\* The text the configuration has for the zone.
ZoneText(config, zone) ==
    CASE zone = "left" -> config.left_text
      [] zone = "center" -> config.text
      [] OTHER -> config.right_text

\* The label after the text of the zone.
Labelled(text) ==
    IF text = <<>> THEN <<"P", "a", "g", "e", " ">>
    ELSE text \o <<" ", "-", " ", "P", "a", "g", "e", " ">>

IsField(r) == r.kind = "field"

HasLabel(r) ==
    /\ r.kind = "run" /\ Len(r.text) >= 5
    /\ SubSeq(r.text, Len(r.text) - 4, Len(r.text)) = <<"P", "a", "g", "e", " ">>

C23_PageFieldInItsZone ==
    status = "returned" =>
        /\ \A k \in DOMAIN document.header.runs :
               ~IsField(document.header.runs[k]) /\ ~HasLabel(document.header.runs[k])
        /\ branding.footer.include_page_number
           /\ ~HasPicture(document.footer.runs)
           => \E k \in DOMAIN document.footer.runs :
                  /\ IsField(document.footer.runs[k])
                  /\ ZoneAt(document.footer.runs, k)
                         = branding.footer.page_number_position
                  /\ k > 1
                  /\ document.footer.runs[k - 1].kind = "run"
                  /\ document.footer.runs[k - 1].text
                         = Labelled(ZoneText(branding.footer,
                                             branding.footer.page_number_position))

(***************************************************************************)
(* C24: every emitted header or footer paragraph has its three zones in    *)
(* the order left, center, right with exactly two tab characters between   *)
(* them; when the logo is placed, the picture is in the zone logo_position *)
(* names, no tab is added for it, and the texts of the other two zones are *)
(* in their own zones.  (A paragraph whose logo could not be placed is the *)
(* matter of C12.)                                                         *)
(***************************************************************************)
\* The tab characters of the runs before position k.
TabChars(runs, k) ==
    Cardinality({p \in (1..(k - 1)) \X (1..2) :
                    /\ runs[p[1]].kind = "run"
                    /\ p[2] <= Len(runs[p[1]].text)
                    /\ runs[p[1]].text[p[2]] = "\t"})

ZoneIndex(zone) ==
    CASE zone = "left" -> 0 [] zone = "center" -> 1 [] OTHER -> 2

\* The text of the zone, with the label of the page number in the footer.
ExpectedText(config, is_header, zone) ==
    IF ~is_header /\ config.include_page_number
       /\ config.page_number_position = zone
    THEN Labelled(ZoneText(config, zone))
    ELSE ZoneText(config, zone)

ThreeZones(runs, config, is_header) ==
    /\ TabChars(runs, Len(runs) + 1) = 2
    /\ \A k \in DOMAIN runs :
           runs[k].kind = "picture"
           => TabChars(runs, k) = ZoneIndex(config.logo_position)
    /\ \A zone \in ZoneNames :
           ~(HasPicture(runs) /\ zone = config.logo_position)
           => \E k \in DOMAIN runs :
                  /\ runs[k].kind = "run"
                  /\ runs[k].text = ExpectedText(config, is_header, zone)
                  /\ TabChars(runs, k) = ZoneIndex(zone)
                  /\ k = Len(runs) \/ runs[k + 1].kind # "run"
                     \/ runs[k + 1].text = <<"\t">>

C24_ThreeZonesTwoTabs ==
    status = "returned" =>
        /\ ~Untouched(document.header, "header")
           /\ (branding.header.logo_path = <<>> \/ HasPicture(document.header.runs))
           => ThreeZones(document.header.runs, branding.header, TRUE)
        /\ ~Untouched(document.footer, "footer")
           /\ (branding.footer.logo_path = <<>> \/ HasPicture(document.footer.runs))
           => ThreeZones(document.footer.runs, branding.footer, FALSE)

(***************************************************************************)
(* C25: for a heading node of level 1..6 the emitted paragraph carries the *)
(* font name, font size, colour, bold, italic, space before and space      *)
(* after of the heading record of that level (so an override of the size,  *)
(* bold, italic or spacing alone shows), and its text is the flattened     *)
(* content of the node.                                                    *)
(***************************************************************************)
\* The heading record of the configuration for the level.
HeadingRecord(b, lvl) == b["heading" \o ToString(lvl)]

CarriesRecord(e, config) ==
    /\ e.space_before = {config.space_before}
    /\ e.space_after = {config.space_after}
    /\ \A k \in DOMAIN e.runs :
           /\ e.runs[k].name = {config.font_name}
           /\ e.runs[k].size = {config.font_size}
           /\ e.runs[k].color = FontColor(config.color)
           /\ e.runs[k].bold = {config.bold}
           /\ e.runs[k].italic = {config.italic}

C25_HeadingCarriesItsRecord ==
    \A i \in DOMAIN ast :
        /\ NodeType(ast[i]) = "heading"
        /\ Get(Attrs(ast[i]), "level", 1) \in ParserLevels
        /\ Processed(i)
        => /\ Len(ElementsOf(i)) = 1
           /\ ElementsOf(i)[1].kind = "paragraph"
           /\ Len(ElementsOf(i)[1].runs) = 1
           /\ ElementsOf(i)[1].runs[1].text = FlatText(ast[i])
           /\ CarriesRecord(ElementsOf(i)[1],
                            HeadingRecord(branding, Get(Attrs(ast[i]), "level", 1)))

(***************************************************************************)
(* C26: a paragraph node emits exactly one paragraph; the run of an inline *)
(* child has the body font name and size (its own, or that of the Normal   *)
(* style the body font was written to), but the run of a code span has the *)
(* code font and the code background; the run of a strong child is bold,   *)
(* of an emphasis child italic, of a strikethrough child struck; a soft    *)
(* break is a single space and a line break a break in the same paragraph. *)
(***************************************************************************)
RenderedInlines ==
    {"text", "strong", "emphasis", "codespan", "link", "softbreak",
     "linebreak", "strikethrough"}

\* The children of the node that have a run of their own.
Rendered(node) ==
    LET IsRendered(child) == NodeType(child) \in RenderedInlines
    IN  SelectSeq(Children(node), IsRendered)

\* The attribute of the run, or the one it inherits from the Normal style.
Effective(run, attr, normal) == IF run[attr] # {} THEN run[attr] ELSE normal[attr]

RunAsClaimed(run, child, b, normal) ==
    /\ NodeType(child) = "link" => run.kind = "hyperlink" /\ run.name = b.body_font.name
    /\ NodeType(child) # "link" => run.kind = "run"
    /\ NodeType(child) \notin {"link", "codespan"} =>
           /\ Effective(run, "name", normal) = {b.body_font.name}
           /\ Effective(run, "size", normal) = {b.body_font.size}
    /\ NodeType(child) = "codespan" =>
           /\ run.name = {b.code_font.name}
           /\ run.size = {b.code_font.size}
           /\ Get(run, "shading", {}) = FontColor(b.code_background_color)
    /\ NodeType(child) = "strong" => run.bold = {TRUE}
    /\ NodeType(child) = "emphasis" => run.italic = {TRUE}
    /\ NodeType(child) = "strikethrough" => run.strike = {TRUE}
    /\ NodeType(child) = "softbreak" => run.text = <<" ">>
    /\ NodeType(child) = "linebreak" => run.text = <<"\n">>

C26_ParagraphRuns ==
    \A i \in DOMAIN ast :
        NodeType(ast[i]) = "paragraph" /\ Processed(i) =>
            /\ Len(ElementsOf(i)) = 1
            /\ ElementsOf(i)[1].kind = "paragraph"
            /\ Len(ElementsOf(i)[1].runs) = Len(Rendered(ast[i]))
            /\ \A k \in DOMAIN ElementsOf(i)[1].runs :
                   RunAsClaimed(ElementsOf(i)[1].runs[k], Rendered(ast[i])[k],
                                branding, document.normal)

(***************************************************************************)
(* C27: in every emitted table the alignment of column c is the align      *)
(* attribute of header cell c (left, center, right; unset is the default,  *)
(* left), read from the header only; it is applied to the header cell and  *)
(* to every body cell of column c that the row has a node for, while the   *)
(* cells added to fill a short row keep the default; the text of every     *)
(* header cell is bold and no body cell is made bold; exactly one empty    *)
(* paragraph follows the table.                                            *)
(***************************************************************************)
\* The alignment the header gives column c: {} for none.
HeaderAlign(node, c) ==
    IF "align" \in DOMAIN Attrs(HeadCells(node)[c])
       /\ Attrs(HeadCells(node)[c]).align \in ZoneNames
    THEN {Attrs(HeadCells(node)[c]).align}
    ELSE {}

\* The elements are a table and one empty paragraph after it.
TableThenSpacing(elems) ==
    /\ Len(elems) = 2
    /\ elems[1].kind = "table"
    /\ elems[2].kind = "paragraph" /\ elems[2].runs = <<>>

HeaderRowAsClaimed(table, node) ==
    \A c \in DOMAIN table.rows[1] :
        /\ table.rows[1][c].alignment = HeaderAlign(node, c)
        /\ table.rows[1][c].bold = {TRUE}

\* The cells of the body rows in the set of positions are aligned as their
\* column, and none is bold.
BodyCellsAsClaimed(table, node, filled) ==
    \A r \in DOMAIN BodyRows(node) : \A c \in DOMAIN table.rows[r + 1] :
        /\ table.rows[r + 1][c].bold = {}
        /\ <<r, c>> \in filled =>
               table.rows[r + 1][c].alignment = HeaderAlign(node, c)
        /\ <<r, c>> \notin filled => table.rows[r + 1][c].alignment = {}

\* The positions of the body that have a cell node.
NodeCells(node) ==
    {p \in (DOMAIN BodyRows(node)) \X (1..Len(HeadCells(node))) :
        p[2] <= Len(Children(BodyRows(node)[p[1]]))}

C27_ColumnAlignment ==
    \A i \in DOMAIN ast :
        HeadedTable(ast[i]) /\ Processed(i) =>
            /\ TableThenSpacing(ElementsOf(i))
            /\ HeaderRowAsClaimed(ElementsOf(i)[1], ast[i])
            /\ BodyCellsAsClaimed(ElementsOf(i)[1], ast[i], NodeCells(ast[i]))

\* The statement with every cell of every row aligned as its column.
C27_EveryCellAligned ==
    \A i \in DOMAIN ast :
        HeadedTable(ast[i]) /\ Processed(i) =>
            /\ TableThenSpacing(ElementsOf(i))
            /\ HeaderRowAsClaimed(ElementsOf(i)[1], ast[i])
            /\ BodyCellsAsClaimed(ElementsOf(i)[1], ast[i],
                                  (DOMAIN BodyRows(ast[i])) \X (1..Len(HeadCells(ast[i]))))

\* generate has returned a table of three columns, two of them aligned,
\* whose body rows have cells with an align attribute of their own, one
\* row being short of a cell.
C27_Witness ==
    /\ status = "returned"
    /\ \E i \in DOMAIN ast :
           /\ HeadedTable(ast[i]) /\ Len(HeadCells(ast[i])) = 3
           /\ HeaderAlign(ast[i], 1) = {} /\ HeaderAlign(ast[i], 2) # {}
           /\ \E r \in DOMAIN BodyRows(ast[i]) : Len(Children(BodyRows(ast[i])[r])) = 2
           /\ \E r \in DOMAIN BodyRows(ast[i]) : Len(Children(BodyRows(ast[i])[r])) = 3
           /\ TableThenSpacing(ElementsOf(i))

(***************************************************************************)
(* C28: on a generator whose list level is not stale (C10) and for texts   *)
(* the document takes (C20), generate does not raise on a list tree of any *)
(* depth, and for every paragraph or block_text child of every list item   *)
(* exactly one element is emitted, a list paragraph; where the depth has   *)
(* no list style of its own, the paragraph has the base style and a left   *)
(* indent of depth times one fixed unit.                                   *)
(***************************************************************************)
\* The paths of the paragraph and block_text children of the items of the
\* list at the path, and of the lists nested in them.
RECURSIVE ListParagraphPaths(_, _)
ListParagraphPaths(list, path) ==
    UNION {UNION {CASE NodeType(Children(Children(list)[k])[j])
                           \in {"paragraph", "block_text"} -> {path \o <<k, j>>}
                    [] NodeType(Children(Children(list)[k])[j]) = "list"
                       /\ NodeType(Children(list)[k]) = "list_item" ->
                           ListParagraphPaths(Children(Children(list)[k])[j],
                                              path \o <<k, j>>)
                    [] OTHER -> {} :
                  j \in DOMAIN Children(Children(list)[k])} :
           k \in {n \in DOMAIN Children(list) :
                     NodeType(Children(list)[n]) = "list_item"}}

\* The list level is the one the traversal itself has counted.
LevelNotStale ==
    CASE status = "idle" -> TRUE
      [] status = "returned" -> list_level = 0
      [] Top.fn = "_handle_list" -> list_level = (Len(Top.path) - 1) \div 2
      [] Top.fn = "_handle_list_item" -> list_level = (Len(Top.path) - 2) \div 2
      [] OTHER -> list_level = 0

\* The positions of the body whose element was emitted for the path.
EmittedFor(src) == {k \in DOMAIN document.body : document.body[k].src = src}

BaseStyles == {ListStyleName(TRUE, 0), ListStyleName(FALSE, 0)}

ListParagraphAsClaimed(e) ==
    /\ e.kind = "paragraph"
    /\ IF ListStyleName(EntryOrdered(e), ListDepth(e.src)) \in DocStyles
       THEN e.style = ListStyleName(Get(Attrs(ListOf(e.src)), "ordered", FALSE),
                                    ListDepth(e.src))
       ELSE /\ e.style \in BaseStyles
            /\ e.left_indent # {}
            /\ \A x \in e.left_indent :
                   x = ListDepth(e.src) * (x \div ListDepth(e.src))

C28_ListParagraphsOnce ==
    LevelNotStale /\ XmlCompatible(FlatTexts(ast)) =>
        \A i \in DOMAIN ast :
            NodeType(ast[i]) = "list" =>
                /\ ~RaisedAt(i)
                /\ Processed(i) =>
                       \A src \in ListParagraphPaths(ast[i], <<i>>) :
                           /\ Cardinality(EmittedFor(src)) = 1
                           /\ \A k \in EmittedFor(src) :
                                  ListParagraphAsClaimed(document.body[k])

(***************************************************************************)
(* C29: the elements are appended in the depth-first, left-to-right order  *)
(* of the tree: the elements of an earlier top-level node all come before  *)
(* those of a later one, and within a list the elements of the children of *)
(* an item come in the order of the children, the entries of a nested list *)
(* after those of the children before it and before those of the children  *)
(* after it and of every later item.                                       *)
(***************************************************************************)
\* Path s is before path t in the depth-first, left-to-right order: at the
\* first position where they differ, s has the lower index.
PathBefore(s, t) ==
    \E n \in 1..Len(s) :
        /\ n <= Len(t)
        /\ SubSeq(s, 1, n - 1) = SubSeq(t, 1, n - 1)
        /\ s[n] < t[n]

C29_DepthFirstOrder ==
    status # "idle" =>
        \A k1, k2 \in DOMAIN document.body :
            PathBefore(document.body[k1].src, document.body[k2].src) => k1 < k2

\* generate has returned the document of a list whose item holds a
\* paragraph, a nested list and a text after it: the entries of the nested
\* list are between the two.
C29_Witness ==
    /\ status = "returned"
    /\ \E k1, k2, k3 \in DOMAIN document.body :
           /\ k1 < k2 /\ k2 < k3
           /\ Len(document.body[k1].src) = 3
           /\ Len(document.body[k3].src) = 3
           /\ document.body[k1].src[2] = document.body[k3].src[2]
           /\ Len(document.body[k2].src) = 5
           /\ SubSeq(document.body[k2].src, 1, 2) = SubSeq(document.body[k1].src, 1, 2)

(***************************************************************************)
(* C30: for a block quote node, the elements emitted are one paragraph of  *)
(* the quote style per direct child of type paragraph, in the order of the *)
(* children, each with the inline content of its child; a direct child of  *)
(* any other type (nested quote, list, code block, table) adds no element, *)
(* and nothing is raised.                                                  *)
(***************************************************************************)
\* The positions of the direct paragraph children of the node, in order.
ParagraphPositions(node) ==
    LET IsParagraph(j) == NodeType(Children(node)[j]) = "paragraph"
    IN  SelectSeq([j \in 1..Len(Children(node)) |-> j], IsParagraph)

\* The element is the quote paragraph of the child at position j of node i.
QuoteParagraphOf(e, i, j) ==
    /\ e.kind = "paragraph"
    /\ e.style = "Intense Quote"
    /\ e.src = <<i, j>>
    /\ e.runs = HandleParagraph(Children(ast[i])[j], <<i, j>>, branding).elems[1].runs

C30_QuoteParagraphsOnly ==
    \A i \in DOMAIN ast :
        NodeType(ast[i]) = "block_quote" /\ XmlCompatible(FlatText(ast[i])) =>
            /\ ~RaisedAt(i)
            /\ Processed(i) =>
                   /\ Len(ElementsOf(i)) = Len(ParagraphPositions(ast[i]))
                   /\ \A k \in DOMAIN ElementsOf(i) :
                          QuoteParagraphOf(ElementsOf(i)[k], i,
                                           ParagraphPositions(ast[i])[k])

\* generate has returned the document of a quote that holds a nested quote,
\* a list, a code block and a table between two paragraphs.
C30_Witness ==
    /\ status = "returned"
    /\ \E i \in DOMAIN ast :
           /\ NodeType(ast[i]) = "block_quote"
           /\ {"block_quote", "list", "block_code", "table"}
                  \subseteq {NodeType(Children(ast[i])[j]) : j \in DOMAIN Children(ast[i])}
           /\ Len(ElementsOf(i)) = 2

=============================================================================
